---- MODULE Spec2Model ----
(***************************************************************************)
(* Task scheduler of 7frank/tdi2 (task-scheduler/): the task store         *)
(* (services/yaml_manager.py), the workspace manager                       *)
(* (services/workspace_manager.py), the quota monitor                      *)
(* (services/token_monitor.py) and the orchestrating flow                  *)
(* (flows/task_processor.py).  A run of process_tasks_flow is a sequence   *)
(* of steps of one process; the command-line operations happen between     *)
(* runs.                                                                   *)
(***************************************************************************)
EXTENDS Integers, Sequences, FiniteSets, TLC

VARIABLES
    tasks,      \* the persisted task list (config/tasks.yaml), in file order
    registry,   \* WorkspaceManager.active_workspaces: task id -> WorkspaceInfo
    disk,       \* the directories that exist under workspaces/
    pc,         \* position of the running flow, "idle" between runs
    run,        \* the local variables of process_tasks_flow / process_single_task
    ret,        \* what the last process_tasks_flow call returned
    yaml_file,  \* config/tasks.yaml as text: the document yaml.dump wrote
    io,         \* the last save_tasks / load_tasks call on that text
    call        \* the last call on a service exercised on its own: what it was
                \* handed and what it returned

flow_vars == <<tasks, registry, disk, pc, run, ret>>
file_vars == <<yaml_file, io>>
service_vars == <<yaml_file, io, call>>
vars == <<tasks, registry, disk, pc, run, ret, yaml_file, io, call>>

----------------------------------------------------------------------------
(* Bounds of the model *)

MaxStore == 2         \* tasks the store holds at most
AttemptsCap == 4      \* a run starts only while the attempts counted in the store and
                      \* the tasks it would mark running stay within this
MaxRunTasks == 2      \* largest max_tasks argument of a run
MaxDirs == 1          \* directories under workspaces/ at most
MaxStoreOps == 4      \* tasks the store holds at most when only add and delete act
MaxFileTasks == 2     \* tasks in a list handed to save_tasks at most
MaxWorkspaceDirs == 4 \* directories at most when only the workspace manager acts
MaxMtime == 2         \* latest modification time of a file before execute_task

(* Program constants *)

DefaultMaxAttempts == 3     \* TaskConfig.max_attempts

None == "None"
Now == "ts"                 \* datetime.now(timezone.utc).isoformat(), abstracted

Statuses == {"pending", "running", "completed", "failed", "paused"}
SessionIds == {"s1"}

\* A directory under workspaces/: n = 0 is the persistent workspaces/<task id>,
\* n >= 1 are the names tempfile.mkdtemp makes up for that task id.
NoPath == [task |-> 0, n |-> 0]
PersistentPath(task_id) == [task |-> task_id, n |-> 0]

----------------------------------------------------------------------------
(* services/yaml_manager.py *)

TaskConfig(id) ==
    [id |-> id, title |-> "title", description |-> "description",
     prompt_template |-> None, created_at |-> Now,
     status |-> "pending", started_at |-> None, completed_at |-> None,
     attempts |-> 0, max_attempts |-> DefaultMaxAttempts, last_error |-> None,
     session_id |-> None, workspace_path |-> NoPath]

Ids(ts) == {ts[i].id : i \in 1..Len(ts)}

HasTask(ts, task_id) == task_id \in Ids(ts)

\* index of the first task with that id (the loops of get_task and update_task)
IndexOf(ts, task_id) ==
    CHOOSE i \in 1..Len(ts) :
        ts[i].id = task_id /\ \A j \in 1..(i - 1) : ts[j].id # task_id

get_task(ts, task_id) == ts[IndexOf(ts, task_id)]

\* setattr for every key the task has
SetFields(t, updates) ==
    [k \in DOMAIN t |-> IF k \in DOMAIN updates THEN updates[k] ELSE t[k]]

\* mutant: the fields are set on every task of the list
update_task_all(ts, task_id, updates) ==
    IF HasTask(ts, task_id)
    THEN [i \in 1..Len(ts) |-> SetFields(ts[i], updates)]
    ELSE ts

update_task(ts, task_id, updates) ==
    IF HasTask(ts, task_id)
    THEN [ts EXCEPT ![IndexOf(ts, task_id)] = SetFields(@, updates)]
    ELSE ts

\* what update_task returns: True from inside the loop, False after it
update_task_found(ts, task_id) == HasTask(ts, task_id)

get_tasks_by_status(ts, status) == SelectSeq(ts, LAMBDA t : t.status = status)

\* mutant: the first candidate is taken as it is
NextTaskId_unchecked(ts) == Len(ts) + 1

\* the id add_task generates: len+1, and when that is taken the one fixed
\* second candidate; 0 stands for the loop that never ends
NextTaskId(ts) ==
    LET first == Len(ts) + 1
        second == Len(ts) + 1 + Len(ts)   \* every id starts with 'task-'
    IN  IF first \notin Ids(ts) THEN first
        ELSE IF second \notin Ids(ts) THEN second
        ELSE 0

add_task(ts) == Append(ts, TaskConfig(NextTaskId(ts)))

delete_task(ts, task_id) == SelectSeq(ts, LAMBDA t : t.id # task_id)

\* mutant: the attempt is not counted
mark_task_running_uncounted(ts, task_id, session_id) ==
    LET base == [status |-> "running", started_at |-> Now]
        updates == IF session_id # None
                   THEN [session_id |-> session_id] @@ base ELSE base
    IN  update_task(ts, task_id, updates)

\* mutant: counts the attempt and forgets the status
mark_task_running_unmarked(ts, task_id, session_id) ==
    update_task(ts, task_id,
        [started_at |-> Now,
         attempts |-> IF HasTask(ts, task_id)
                      THEN get_task(ts, task_id).attempts + 1 ELSE 1])

mark_task_running(ts, task_id, session_id) ==
    LET attempts == IF HasTask(ts, task_id)
                    THEN get_task(ts, task_id).attempts + 1 ELSE 1
        base == [status |-> "running", started_at |-> Now, attempts |-> attempts]
        updates == IF session_id # None
                   THEN [session_id |-> session_id] @@ base ELSE base
    IN  update_task(ts, task_id, updates)

\* mutant: a completed task is taken out of the store
mark_task_completed_removing(ts, task_id) ==
    SelectSeq(ts, LAMBDA t : t.id # task_id)

mark_task_completed(ts, task_id) ==
    update_task(ts, task_id,
        [status |-> "completed", completed_at |-> Now, last_error |-> None])

mark_task_failed(ts, task_id, error) ==
    update_task(ts, task_id,
        [status |-> "failed", completed_at |-> Now, last_error |-> error])

mark_task_paused(ts, task_id, reason) ==
    update_task(ts, task_id, [status |-> "paused", last_error |-> reason])

\* mutant: a reset that also starts the attempts again
reset_task_zeroing(ts, task_id) ==
    update_task(ts, task_id,
        [status |-> "pending", started_at |-> None, completed_at |-> None,
         last_error |-> None, session_id |-> None, attempts |-> 0])

\* mutant: a reset that keeps the session to resume
reset_task_keeping_session(ts, task_id) ==
    update_task(ts, task_id,
        [status |-> "pending", started_at |-> None, completed_at |-> None,
         last_error |-> None])

reset_task(ts, task_id) ==
    update_task(ts, task_id,
        [status |-> "pending", started_at |-> None, completed_at |-> None,
         last_error |-> None, session_id |-> None])

----------------------------------------------------------------------------
(* services/yaml_manager.py: the task file as YAML text *)

\* the fields of the dataclass, in the order asdict and yaml.dump keep
FieldOrder ==
    <<"id", "title", "description", "prompt_template", "status", "created_at",
      "started_at", "completed_at", "attempts", "max_attempts", "last_error",
      "session_id", "workspace_path">>

Fields == {FieldOrder[i] : i \in 1..Len(FieldOrder)}

\* the fields without a default
RequiredFields == {"id", "title", "description"}

IsoNow == "2026-11-01T08:00:00+00:00"   \* datetime.now(timezone.utc).isoformat()

\* Python values, tagged with their type
PyNone == [type |-> "NoneType", text |-> "", n |-> 0]
PyStr(text) == [type |-> "str", text |-> text, n |-> 0]
PyInt(n) == [type |-> "int", text |-> "", n |-> n]
PyBool(text) == [type |-> "bool", text |-> text, n |-> 0]
PyDatetime(text) == [type |-> "datetime", text |-> text, n |-> 0]

FieldDefaults ==
    [f \in Fields |->
        CASE f = "prompt_template" -> PyStr("default")
          [] f = "status" -> PyStr("pending")
          [] f = "attempts" -> PyInt(0)
          [] f = "max_attempts" -> PyInt(DefaultMaxAttempts)
          [] OTHER -> PyNone]

\* What the YAML 1.1 resolver of safe_load makes of a plain (unquoted) scalar
NullTexts == {"null", "Null", "NULL", "~", ""}
BoolTexts == {"true", "false", "yes", "no", "on", "off"}
IntTexts == <<"0", "1", "2", "3">>       \* the text of n is IntTexts[n + 1]
TimestampTexts == {IsoNow, "2026-11-01"}
\* text that is no plain scalar at all: written plain it breaks the document
SpecialTexts == {"a: b"}

resolve(text) ==
    IF text \in NullTexts THEN "null"
    ELSE IF text \in BoolTexts THEN "bool"
    ELSE IF \E i \in 1..Len(IntTexts) : IntTexts[i] = text THEN "int"
    ELSE IF text \in TimestampTexts THEN "timestamp"
    ELSE "str"

\* mutant: every scalar is written plain
represent_plain(v) ==
    CASE v.type = "NoneType" -> [style |-> "plain", text |-> "null"]
      [] v.type = "int" -> [style |-> "plain", text |-> IntTexts[v.n + 1]]
      [] OTHER -> [style |-> "plain", text |-> v.text]

\* the scalar yaml.dump writes for a value: a string is quoted unless its
\* plain text would be read back as a string
represent(v) ==
    CASE v.type = "NoneType" -> [style |-> "plain", text |-> "null"]
      [] v.type = "int" -> [style |-> "plain", text |-> IntTexts[v.n + 1]]
      [] OTHER ->
           IF resolve(v.text) = "str" /\ v.text \notin SpecialTexts
           THEN [style |-> "plain", text |-> v.text]
           ELSE [style |-> "quoted", text |-> v.text]

\* the value yaml.safe_load builds from a scalar
construct(scalar) ==
    IF scalar.style = "quoted" THEN PyStr(scalar.text)
    ELSE CASE resolve(scalar.text) = "null" -> PyNone
           [] resolve(scalar.text) = "bool" -> PyBool(scalar.text)
           [] resolve(scalar.text) = "int" ->
                PyInt((CHOOSE i \in 1..Len(IntTexts) :
                           IntTexts[i] = scalar.text) - 1)
           [] resolve(scalar.text) = "timestamp" -> PyDatetime(scalar.text)
           [] OTHER -> PyStr(scalar.text)

\* The file: missing, not parseable as YAML, or a document whose "tasks" key
\* holds a list of mappings field -> scalar (the "meta" mapping is left out).
\* damaged marks a file that was cut short.
MissingFile ==
    [state |-> "missing", damaged |-> FALSE, empty |-> FALSE,
     tasks_null |-> FALSE, tasks |-> <<>>]

TextFile(mappings) ==
    [state |-> "text", damaged |-> FALSE, empty |-> FALSE,
     tasks_null |-> FALSE, tasks |-> mappings]

\* the file _initialize_tasks_file writes
InitialFile == TextFile(<<>>)

\* the places in the last task's mapping where a cut leaves valid YAML that
\* the model follows: after the first key, and after the required keys
CutPoints == {1, Cardinality(RequiredFields)}

\* what is left of a file whose writing stopped early, or that was cut later
Damaged(file) ==
    {[MissingFile EXCEPT !.state = "unparseable", !.damaged = TRUE],
     [TextFile(<<>>) EXCEPT !.empty = TRUE, !.damaged = TRUE],
     [TextFile(<<>>) EXCEPT !.tasks_null = TRUE, !.damaged = TRUE]}
    \cup
    IF file.state = "text" /\ file.tasks # <<>>
    THEN {[file EXCEPT
              !.damaged = TRUE,
              !.tasks[Len(file.tasks)] =
                  [f \in {FieldOrder[i] : i \in 1..k}
                              \cap DOMAIN file.tasks[Len(file.tasks)] |->
                      file.tasks[Len(file.tasks)][f]]] :
          k \in CutPoints}
    ELSE {}

asdict(task) == [f \in Fields |-> task[f]]

yaml_dump(dicts) ==
    TextFile([i \in 1..Len(dicts) |-> [f \in Fields |-> represent(dicts[i][f])]])

\* yaml.safe_load: a YAMLError, or None for an empty document, or the data
yaml_safe_load(file) ==
    IF \/ file.state = "unparseable"
       \/ \E i \in 1..Len(file.tasks) : \E f \in DOMAIN file.tasks[i] :
              /\ file.tasks[i][f].style = "plain"
              /\ file.tasks[i][f].text \in SpecialTexts
    THEN [error |-> TRUE, none |-> FALSE, tasks_null |-> FALSE, tasks |-> <<>>]
    ELSE [error |-> FALSE, none |-> file.empty, tasks_null |-> file.tasks_null,
          tasks |-> [i \in 1..Len(file.tasks) |->
                        [f \in DOMAIN file.tasks[i] |-> construct(file.tasks[i][f])]]]

\* _load_tasks_data: FileNotFoundError and YAMLError fall back to the default
load_tasks_data(file) ==
    LET data == yaml_safe_load(file)
    IN  IF file.state = "missing" \/ data.error \/ data.none
        THEN [tasks_null |-> FALSE, tasks |-> <<>>]
        ELSE [tasks_null |-> data.tasks_null, tasks |-> data.tasks]

\* TaskConfig(**task_dict) and __post_init__
TaskConfigFrom(task_dict) ==
    LET t == [f \in Fields |->
                 IF f \in DOMAIN task_dict THEN task_dict[f] ELSE FieldDefaults[f]]
    IN  IF t.created_at = PyNone THEN [t EXCEPT !.created_at = PyStr(IsoNow)] ELSE t

\* load_tasks: iterating None and a missing required field raise TypeError
load_tasks(file) ==
    LET data == load_tasks_data(file)
    IN  IF \/ data.tasks_null
           \/ \E i \in 1..Len(data.tasks) :
                  ~(RequiredFields \subseteq DOMAIN data.tasks[i])
        THEN [raised |-> TRUE, tasks |-> <<>>]
        ELSE [raised |-> FALSE,
              tasks |-> [i \in 1..Len(data.tasks) |-> TaskConfigFrom(data.tasks[i])]]

\* how the write of _save_tasks_data went
WriteOutcomes == {"ok", "open_failed", "partial"}

\* save_tasks: the files it can leave and whether it raised
save_tasks(file, task_list, outcome) ==
    LET new == yaml_dump([i \in 1..Len(task_list) |-> asdict(task_list[i])])
    IN  CASE outcome = "ok" -> {[file |-> new, raised |-> FALSE]}
          [] outcome = "open_failed" -> {[file |-> file, raised |-> TRUE]}
          [] OTHER -> {[file |-> d, raised |-> TRUE] : d \in Damaged(new)}

NoCall ==
    [op |-> "none", arg |-> <<>>, write |-> "none", raised |-> FALSE,
     result |-> <<>>, after_save |-> FALSE, found |-> "none"]

\* no service was called on its own yet
NoServiceCall == [op |-> "none", arg |-> <<>>, before |-> <<>>, result |-> <<>>]

----------------------------------------------------------------------------
(* services/workspace_manager.py *)

Templates == {None, "tpl", "missing"}
ExistingTemplates == {"tpl"}      \* directories under templates/workspaces/

\* tempfile.mkdtemp: a directory name not in use
mkdtemp(dk, task_id) ==
    [task |-> task_id,
     n |-> CHOOSE k \in 1..(Cardinality(dk) + 1) :
              /\ [task |-> task_id, n |-> k] \notin dk
              /\ \A j \in 1..(k - 1) : [task |-> task_id, n |-> j] \in dk]

Unregister(reg, task_id) == [k \in DOMAIN reg \ {task_id} |-> reg[k]]

\* The result of create_workspace: the registry and directories after it,
\* whether it raised, and the path it returned.  _create_basic_workspace
\* reads the name datetime, which the module never imports (the import in
\* create_workspace is local to that function), so it raises NameError after
\* the directory was made and before the workspace is registered.
create_workspace(reg, dk, task_id, template_name, temporary) ==
    IF task_id \in DOMAIN reg
    THEN [registry |-> reg, disk |-> dk, raised |-> FALSE,
          path |-> reg[task_id].workspace_path]
    ELSE LET p == IF temporary THEN mkdtemp(dk, task_id)
                  ELSE PersistentPath(task_id)
         IN  IF template_name \in ExistingTemplates
             THEN [registry |-> (task_id :> [workspace_path |-> p,
                                            is_temporary |-> temporary,
                                            base_template |-> template_name])
                                @@ reg,
                   disk |-> dk \cup {p}, raised |-> FALSE, path |-> p]
             ELSE [registry |-> reg, disk |-> dk \cup {p}, raised |-> TRUE,
                   path |-> NoPath]

\* mutant: a persistent workspace is removed without force as well
cleanup_workspace_any(reg, dk, task_id, force) ==
    IF task_id \notin DOMAIN reg
    THEN [registry |-> reg, disk |-> dk, ok |-> TRUE]
    ELSE [registry |-> Unregister(reg, task_id),
          disk |-> dk \ {reg[task_id].workspace_path}, ok |-> TRUE]

\* The result of cleanup_workspace: registry and directories after it, and
\* the boolean it returns.
cleanup_workspace(reg, dk, task_id, force) ==
    IF task_id \notin DOMAIN reg
    THEN [registry |-> reg, disk |-> dk, ok |-> TRUE]
    ELSE IF ~reg[task_id].is_temporary /\ ~force
    THEN [registry |-> reg, disk |-> dk, ok |-> FALSE]
    ELSE [registry |-> Unregister(reg, task_id),
          disk |-> dk \ {reg[task_id].workspace_path}, ok |-> TRUE]

TemporaryIds(reg) == {k \in DOMAIN reg : reg[k].is_temporary}

\* mutant: the directories go, the registry entries stay
cleanup_all_temporary_workspaces_keeping(reg, dk) ==
    LET ids == TemporaryIds(reg)
    IN  [registry |-> reg,
         disk |-> dk \ {reg[k].workspace_path : k \in ids},
         count |-> Cardinality(ids)]

\* mutant: the count is the number of workspaces registered
cleanup_all_temporary_workspaces_counting_all(reg, dk) ==
    LET ids == TemporaryIds(reg)
    IN  [registry |-> [k \in DOMAIN reg \ ids |-> reg[k]],
         disk |-> dk \ {reg[k].workspace_path : k \in ids},
         count |-> Cardinality(DOMAIN reg)]

\* cleanup_workspace(task_id) for every temporary workspace; the count is
\* the number of calls that returned True
cleanup_all_temporary_workspaces(reg, dk) ==
    LET ids == TemporaryIds(reg)
    IN  [registry |-> [k \in DOMAIN reg \ ids |-> reg[k]],
         disk |-> dk \ {reg[k].workspace_path : k \in ids},
         count |-> Cardinality(ids)]

----------------------------------------------------------------------------
(* services/token_monitor.py *)

critical_threshold == 950      \* 0.95, in thousandths

\* what check_token_status returns: no status, or a usage percentage
Unavailable == [known |-> FALSE, pct |-> 0]
Usage(p) == [known |-> TRUE, pct |-> p]
QuotaStatuses == {Unavailable, Usage(200), Usage(950)}

\* mutant: usage exactly at the threshold still runs
can_run_tasks_above(status) == status.known /\ status.pct <= critical_threshold

can_run_tasks(status) == status.known /\ status.pct < critical_threshold

can_run_reason(status) ==
    IF ~status.known THEN "Could not check Claude Code token status"
    ELSE IF status.pct >= critical_threshold THEN "above critical threshold"
    ELSE "Token usage within acceptable limits"

get_usage_summary(status) ==
    IF ~status.known THEN "unknown"
    ELSE IF status.pct < critical_threshold THEN "ok" ELSE "critical"

\* The text `claude-code /status` prints, as far as the patterns of
\* _parse_status_output see it: the phrase about messages, with the numbers U
\* and L written in it, and the phrase about the time left, with the numbers
\* H and M written in it.  "U messages, limit L" is the example of the code's
\* third pattern, which that pattern does not match (it wants white space
\* after "messages"); "HH remaining" is "Hh remaining" in capitals.
PairForms ==
    {"U/L messages", "U messages used of L total", "U messages of limit L"}
MessageForms == PairForms \cup {"U messages, limit L", "U messages", "none"}
ResetForms ==
    {"none", "Hh Mm remaining", "H hours M minutes remaining", "Hh remaining",
     "HH remaining", "M minutes remaining", "H hours remaining"}
MessageCounts ==
    {0, 19, 20, 45, 50, 51, 214, 225, 250, 251, 950, 960, 1000, 2000}
ResetHours == {0, 4}
ResetMinutes == {0, 1, 10}

MessagePhrases ==
    [form : PairForms \cup {"U messages, limit L"}, U : MessageCounts,
     L : MessageCounts]
    \cup [form : {"U messages"}, U : MessageCounts, L : {0}]
    \cup [form : {"none"}, U : {0}, L : {0}]

ResetPhrases ==
    [form : {"Hh Mm remaining", "H hours M minutes remaining"},
     H : ResetHours, M : ResetMinutes]
    \cup [form : {"Hh remaining", "HH remaining", "H hours remaining"},
          H : ResetHours, M : {0}]
    \cup [form : {"M minutes remaining"}, H : {0}, M : ResetMinutes]
    \cup [form : {"none"}, H : {0}, M : {0}]

StatusText(messages, reset) == [messages |-> messages, reset |-> reset]
NoText == StatusText([form |-> "none", U |-> 0, L |-> 0],
                     [form |-> "none", H |-> 0, M |-> 0])

\* What running `claude-code` with /status came to: it exited with a code
\* and the text on stdout, ran into the 30 second timeout, or could not be
\* started.
StatusExit(returncode, stdout) ==
    [kind |-> "exit", returncode |-> returncode, stdout |-> stdout]
StatusFailures ==
    {StatusExit(1, NoText),
     [kind |-> "timeout", returncode |-> 0 - 1, stdout |-> NoText],
     [kind |-> "exception", returncode |-> 0 - 1, stdout |-> NoText]}

status_timeout == 30        \* seconds, subprocess.run(timeout=30)

\* timedelta, in minutes; None when no reset phrase was found
NoTimedelta == [known |-> FALSE, minutes |-> 0]
timedelta(hours, minutes) == [known |-> TRUE, minutes |-> 60 * hours + minutes]

\* the first time pattern that matches decides
time_until_reset(reset) ==
    CASE reset.form \in {"Hh Mm remaining", "H hours M minutes remaining"}
             -> timedelta(reset.H, reset.M)
      [] reset.form = "Hh remaining" -> timedelta(reset.H, 0)
      [] reset.form = "HH remaining" -> timedelta(0, reset.H)
      [] reset.form = "M minutes remaining" -> timedelta(0, reset.M)
      [] OTHER -> NoTimedelta

\* the limit inferred from a lone usage number
\* mutant: the tiers begin at 50 and 250 and not above them
InferredLimit_below(messages_used) ==
    IF messages_used < 50 THEN 45
    ELSE IF messages_used < 250 THEN 225 ELSE 900

InferredLimit(messages_used) ==
    IF messages_used <= 50 THEN 45
    ELSE IF messages_used <= 250 THEN 225 ELSE 900

plan_of(messages_limit) ==
    IF messages_limit <= 50 THEN "pro"
    ELSE IF messages_limit <= 250 THEN "max5"
    ELSE IF messages_limit <= 1000 THEN "max20" ELSE None

\* messages_used / messages_limit in thousandths, rounded down: comparing it
\* with a threshold given in whole thousandths gives what comparing the
\* quotient gives
percentage(messages_used, messages_limit) ==
    IF messages_limit > 0 THEN (1000 * messages_used) \div messages_limit ELSE 0

TokenUsageInfo(messages_used, messages_limit, reset) ==
    [known |-> TRUE, pct |-> percentage(messages_used, messages_limit),
     messages_used |-> messages_used, messages_limit |-> messages_limit,
     time_until_reset |-> reset, plan |-> plan_of(messages_limit)]

\* mutant: a limit is always inferred from the usage number
parse_status_output_inferring(text) ==
    LET m == text.messages
    IN  TokenUsageInfo(m.U, InferredLimit(m.U), time_until_reset(text.reset))

\* _parse_status_output: the first pair pattern that matches gives used and
\* limit; with no limit found, the first "<number> messages" of the text gives
\* used and the limit is inferred; with no number at all both stay 0.  The
\* result is a TokenUsageInfo in every case.
parse_status_output(text) ==
    LET m == text.messages
        matched == m.form \in PairForms
        limit0 == IF matched THEN m.L ELSE 0
        standalone == IF m.form = "U/L messages" THEN m.L ELSE m.U
        infer == limit0 = 0 /\ m.form # "none"
        messages_used == IF infer THEN standalone
                         ELSE IF matched THEN m.U ELSE 0
        messages_limit == IF infer THEN InferredLimit(standalone) ELSE limit0
    IN  TokenUsageInfo(messages_used, messages_limit,
                       time_until_reset(text.reset))

\* check_token_status: the parsed text when the exit code is 0, else None
check_token_status(o) ==
    IF o.kind = "exit" /\ o.returncode = 0
    THEN parse_status_output(o.stdout)
    ELSE Unavailable

max_wait_time == 21600      \* seconds: timedelta(hours=6)
check_interval == 300       \* seconds
shortest_sleep == 60        \* seconds: max(60, wait_time)

Max(a, b) == IF a >= b THEN a ELSE b
Min(a, b) == IF a <= b THEN a ELSE b

\* mutant: a quarter of the time left, however short
sleep_time_quarter(last_check) ==
    IF /\ last_check.known
       /\ last_check.time_until_reset.known
       /\ last_check.time_until_reset.minutes > 0
    THEN Min(check_interval, 15 * last_check.time_until_reset.minutes)
    ELSE check_interval

\* The seconds wait_for_token_reset sleeps after a check that did not allow
\* running: a quarter of the reset time of the last status that was read
\* (60 * minutes / 4), at most check_interval and at least a minute; or
\* check_interval when no status was ever read or it has no reset time
\* (a timedelta of zero counts as none).
sleep_time(last_check) ==
    IF /\ last_check.known
       /\ last_check.time_until_reset.known
       /\ last_check.time_until_reset.minutes > 0
    THEN Max(shortest_sleep,
             Min(check_interval, 15 * last_check.time_until_reset.minutes))
    ELSE check_interval

----------------------------------------------------------------------------
(* flows/claude_executor.py *)

\* What the external process did: its exit code, its stderr, whether its
\* output holds a quota phrase and the session id its output shows; or it ran
\* into the timeout, or starting it raised another exception.
Outcomes ==
    [kind : {"exit"}, return_code : {0, 1}, stderr : {"", "stderr"},
     limit_phrase : BOOLEAN, session : SessionIds \cup {None}]
    \cup [kind : {"timeout", "exception"}, return_code : {0 - 1}, stderr : {""},
          limit_phrase : {FALSE}, session : {None}]

\* mutant: a timeout is reported as a quota signal
execute_task_timeout_quota(session_id, o) ==
    IF o.kind = "timeout"
    THEN [success |-> FALSE, token_limit_hit |-> TRUE, session_id |-> None,
          error_message |-> "Execution timed out"]
    ELSE IF o.kind = "exception"
    THEN [success |-> FALSE, token_limit_hit |-> FALSE, session_id |-> None,
          error_message |-> "Execution failed"]
    ELSE [success |-> o.return_code = 0 /\ ~o.limit_phrase,
          token_limit_hit |-> o.limit_phrase,
          session_id |-> IF session_id # None THEN session_id ELSE o.session,
          error_message |-> IF o.return_code = 0 THEN None ELSE o.stderr]

\* ClaudeExecutionResult of execute_task, resuming session_id when there is one
execute_task(session_id, o) ==
    IF o.kind = "timeout"
    THEN [success |-> FALSE, token_limit_hit |-> FALSE, session_id |-> None,
          error_message |-> "Execution timed out"]
    ELSE IF o.kind = "exception"
    THEN [success |-> FALSE, token_limit_hit |-> FALSE, session_id |-> None,
          error_message |-> "Execution failed"]
    ELSE [success |-> o.return_code = 0 /\ ~o.limit_phrase,
          token_limit_hit |-> o.limit_phrase,
          session_id |-> IF session_id # None THEN session_id ELSE o.session,
          error_message |-> IF o.return_code = 0 THEN None ELSE o.stderr]

UppercaseLetters ==
    <<"A", "B", "C", "D", "E", "F", "G", "H", "I", "J", "K", "L", "M",
      "N", "O", "P", "Q", "R", "S", "T", "U", "V", "W", "X", "Y", "Z">>
LowercaseLetters ==
    <<"a", "b", "c", "d", "e", "f", "g", "h", "i", "j", "k", "l", "m",
      "n", "o", "p", "q", "r", "s", "t", "u", "v", "w", "x", "y", "z">>

\* str.lower
lower(text) ==
    [i \in 1..Len(text) |->
        IF \E k \in 1..26 : UppercaseLetters[k] = text[i]
        THEN LowercaseLetters[CHOOSE k \in 1..26 : UppercaseLetters[k] = text[i]]
        ELSE text[i]]

\* phrase in text
Contains(text, phrase) ==
    \E i \in 0..(Len(text) - Len(phrase)) :
        SubSeq(text, i + 1, i + Len(phrase)) = phrase

\* the phrases _check_token_limit_in_output looks for; a text is the
\* sequence of its characters
limit_indicators ==
    {<<"r", "a", "t", "e", " ", "l", "i", "m", "i", "t">>,   \* "rate limit"
     <<"u", "s", "a", "g", "e", " ", "l", "i", "m", "i", "t">>,   \* "usage limit"
     <<"t", "o", "k", "e", "n", " ", "l", "i", "m", "i", "t">>,   \* "token limit"
     <<"q", "u", "o", "t", "a", " ", "e", "x", "c", "e", "e", "d", "e",
       "d">>,   \* "quota exceeded"
     <<"l", "i", "m", "i", "t", " ", "r", "e", "a", "c", "h", "e", "d">>,   \* "limit reached"
     <<"t", "o", "o", " ", "m", "a", "n", "y", " ", "r", "e", "q", "u",
       "e", "s", "t", "s">>,   \* "too many requests"
     <<"c", "a", "p", "a", "c", "i", "t", "y", " ", "l", "i", "m", "i",
       "t">>}   \* "capacity limit"

\* mutant: stderr is not read
check_token_limit_in_output_stdout(stdout, stderr) ==
    \E indicator \in limit_indicators : Contains(lower(stdout), indicator)

check_token_limit_in_output(stdout, stderr) ==
    LET combined_output == lower(stdout \o stderr)
    IN  \E indicator \in limit_indicators : Contains(combined_output, indicator)

\* The files of a workspace: relative path -> modification time.  .env is a
\* name _should_ignore_file leaves out of the snapshots.
prompt_file == ".claude/prompt.md"
Paths == {prompt_file, ".env", "a.py"}
PathOrder == <<prompt_file, ".env", "a.py">>     \* the order rglob lists them in
should_ignore_file(file_path) == file_path = ".env"

get_workspace_files(ws) ==
    [f \in {g \in DOMAIN ws : ~should_ignore_file(g)} |-> ws[f]]

\* _create_prompt_file writes .claude/prompt.md at the time of the call
create_prompt_file(ws, now) ==
    [f \in DOMAIN ws \cup {prompt_file} |-> IF f = prompt_file THEN now ELSE ws[f]]

\* the files after the external process wrote and deleted some at time t
RunProcess(ws, process, t) ==
    [f \in (DOMAIN ws \ process.deletes) \cup process.writes |->
        IF f \in process.writes THEN t ELSE ws[f]]

\* mutant: a file whose modification time is the same counts as modified
detect_file_changes_same(initial_files, final_files) ==
    SelectSeq(PathOrder, LAMBDA f : f \in DOMAIN final_files
                                    /\ f \notin DOMAIN initial_files)
    \o SelectSeq(PathOrder, LAMBDA f : /\ f \in DOMAIN initial_files
                                       /\ f \in DOMAIN final_files
                                       /\ final_files[f] >= initial_files[f])

\* the new files, then the files of both snapshots whose modification time
\* increased
detect_file_changes(initial_files, final_files) ==
    SelectSeq(PathOrder, LAMBDA f : f \in DOMAIN final_files
                                    /\ f \notin DOMAIN initial_files)
    \o SelectSeq(PathOrder, LAMBDA f : /\ f \in DOMAIN initial_files
                                       /\ f \in DOMAIN final_files
                                       /\ final_files[f] > initial_files[f])

\* changed_files of execute_task called at time now: the first snapshot is
\* taken, the prompt file is written, the process runs and the second
\* snapshot is compared with the first; [] when the process timed out or an
\* exception was raised
changed_files(ws, now, process) ==
    IF process.kind # "exit" THEN <<>>
    ELSE LET initial_files == get_workspace_files(ws)
             final_files == get_workspace_files(
                                RunProcess(create_prompt_file(ws, now),
                                           process, now + 1))
         IN  detect_file_changes(initial_files, final_files)

----------------------------------------------------------------------------
(* flows/task_processor.py *)

NoRun == [max_tasks |-> 0, check_tokens |-> FALSE, can_proceed |-> FALSE,
          waited |-> FALSE, pending_tasks |-> <<>>, i |-> 0, can_run |-> FALSE,
          processed_count |-> 0, results |-> <<>>]

NoReturn == [returned |-> FALSE, success |-> FALSE, processed |-> 0,
             cleanup_count |-> 0, error |-> None]

Return(success, processed, cleanup_count, error) ==
    [returned |-> TRUE, success |-> success, processed |-> processed,
     cleanup_count |-> cleanup_count, error |-> error]

\* the slice s[:n]: a negative n counts from the end
Prefix(s, n) ==
    LET stop == IF n < 0 THEN Len(s) + n ELSE n
    IN  SubSeq(s, 1, IF stop < 0 THEN 0 ELSE IF stop < Len(s) THEN stop ELSE Len(s))

\* mutant: failed tasks are tried again
get_pending_tasks_with_failed(ts, max_tasks) ==
    Prefix(get_tasks_by_status(ts, "pending") \o get_tasks_by_status(ts, "failed")
           \o SelectSeq(get_tasks_by_status(ts, "paused"),
                        LAMBDA t : t.session_id # None),
           max_tasks)

\* mutant: every paused task counts as resumable
get_pending_tasks_any_paused(ts, max_tasks) ==
    Prefix(get_tasks_by_status(ts, "pending") \o get_tasks_by_status(ts, "paused"),
           max_tasks)

\* pending tasks, then the paused tasks with a session id, cut to max_tasks
get_pending_tasks(ts, max_tasks) ==
    LET pending == get_tasks_by_status(ts, "pending")
        paused == get_tasks_by_status(ts, "paused")
        resumable == SelectSeq(paused, LAMBDA t : t.session_id # None)
    IN  Prefix(pending \o resumable, max_tasks)

task_config == run.pending_tasks[run.i]

\* the dictionary process_single_task returns
Result(task_id, success, error, status, session_id, continue_processing) ==
    [task_id |-> task_id, success |-> success, error |-> error,
     status |-> status, session_id |-> session_id,
     continue_processing |-> continue_processing]

\* the loop of process_tasks_flow after process_single_task returned result
AfterTask(result) ==
    /\ run' = [run EXCEPT !.results = Append(@, result),
                          !.processed_count = @ + 1,
                          !.can_run = FALSE,
                          !.i = IF result.continue_processing
                                   /\ run.i < Len(run.pending_tasks)
                                THEN @ + 1 ELSE @]
    /\ pc' = IF result.continue_processing /\ run.i < Len(run.pending_tasks)
             THEN "mark" ELSE "cleanup"

RECURSIVE TotalAttempts(_)
TotalAttempts(ts) ==
    IF ts = <<>> THEN 0 ELSE Head(ts).attempts + TotalAttempts(Tail(ts))

\* mutant: the abort goes through the cleanup at the end of the flow
StartRun_cleans(max_tasks, check_tokens, available) ==
    /\ pc = "idle"
    /\ TotalAttempts(tasks) + Len(get_pending_tasks(tasks, max_tasks)) <= AttemptsCap
    /\ IF ~available
       THEN /\ ret' = Return(FALSE, 0, 0, "Claude Code not available")
            /\ pc' = "returned"
            /\ registry' = cleanup_all_temporary_workspaces(registry, disk).registry
            /\ disk' = cleanup_all_temporary_workspaces(registry, disk).disk
            /\ UNCHANGED run
       ELSE /\ ret' = NoReturn
            /\ run' = [NoRun EXCEPT !.max_tasks = max_tasks,
                                    !.check_tokens = check_tokens]
            /\ pc' = IF check_tokens THEN "tokens" ELSE "select"
            /\ UNCHANGED <<registry, disk>>
    /\ UNCHANGED tasks
    /\ UNCHANGED service_vars

\* process_tasks_flow up to the availability check
\* the availability check at the start of process_tasks_flow
StartRunStep(max_tasks, check_tokens, available) ==
    /\ pc = "idle"
    /\ IF ~available
       THEN /\ ret' = Return(FALSE, 0, 0, "Claude Code not available")
            /\ pc' = "returned"
            /\ UNCHANGED run
       ELSE /\ ret' = NoReturn
            /\ run' = [NoRun EXCEPT !.max_tasks = max_tasks,
                                    !.check_tokens = check_tokens]
            /\ pc' = IF check_tokens THEN "tokens" ELSE "select"
    /\ UNCHANGED <<tasks, registry, disk>>
    /\ UNCHANGED service_vars

\* a run is started while the attempts it can add stay within the bound
StartRun(max_tasks, check_tokens, available) ==
    /\ TotalAttempts(tasks) + Len(get_pending_tasks(tasks, max_tasks)) <= AttemptsCap
    /\ StartRunStep(max_tasks, check_tokens, available)

\* check_token_limits (two status checks) and wait_for_token_reset, whose
\* result is True exactly when one of its can_run_tasks checks passed
TokenCheck(status1, status2, wait_success) ==
    /\ pc = "tokens"
    /\ LET can_proceed == can_run_tasks(status1)
           wait_for_reset == ~can_proceed /\ get_usage_summary(status2) = "critical"
       IN  IF ~can_proceed /\ wait_for_reset /\ ~wait_success
           THEN /\ ret' = Return(FALSE, 0, 0,
                            "Token limits reached and reset wait failed")
                /\ pc' = "returned"
                /\ run' = NoRun
           ELSE /\ run' = [run EXCEPT !.can_proceed = can_proceed,
                                      !.waited = ~can_proceed /\ wait_for_reset]
                /\ pc' = "select"
                /\ UNCHANGED ret
    /\ UNCHANGED <<tasks, registry, disk>>
    /\ UNCHANGED service_vars

SelectTasks ==
    /\ pc = "select"
    /\ LET pending_tasks == get_pending_tasks(tasks, run.max_tasks)
       IN  IF pending_tasks = <<>>
           THEN /\ ret' = Return(TRUE, 0, 0, None)
                /\ pc' = "returned"
                /\ run' = NoRun
           ELSE \* the locals the loop still reads
                /\ run' = [NoRun EXCEPT !.check_tokens = run.check_tokens,
                                        !.pending_tasks = pending_tasks,
                                        !.i = 1]
                /\ pc' = "mark"
                /\ UNCHANGED ret
    /\ UNCHANGED <<tasks, registry, disk>>
    /\ UNCHANGED service_vars

\* process_single_task: mark the task running
MarkRunning ==
    /\ pc = "mark"
    /\ tasks' = mark_task_running(tasks, task_config.id, None)
    /\ pc' = "recheck"
    /\ UNCHANGED <<registry, disk, run, ret>>
    /\ UNCHANGED service_vars

\* mutant: a failed quota check pauses the task and the loop goes on
Recheck_continues(status) ==
    /\ pc = "recheck"
    /\ IF can_run_tasks(status)
       THEN /\ pc' = "workspace"
            /\ run' = [run EXCEPT !.can_run = TRUE]
            /\ UNCHANGED tasks
       ELSE /\ tasks' = mark_task_paused(tasks, task_config.id,
                                         can_run_reason(status))
            /\ AfterTask(Result(task_config.id, FALSE, can_run_reason(status),
                                "paused", None, TRUE))
    /\ UNCHANGED <<registry, disk, ret>>
    /\ UNCHANGED service_vars

\* process_single_task: the quota check before the execution
Recheck(status) ==
    /\ pc = "recheck"
    /\ IF can_run_tasks(status)
       THEN /\ pc' = "workspace"
            /\ run' = [run EXCEPT !.can_run = TRUE]
            /\ UNCHANGED tasks
       ELSE /\ tasks' = mark_task_paused(tasks, task_config.id,
                                         can_run_reason(status))
            /\ AfterTask(Result(task_config.id, FALSE, can_run_reason(status),
                                "paused", None, FALSE))
    /\ UNCHANGED <<registry, disk, ret>>
    /\ UNCHANGED service_vars

\* mutant: an exception ends the run
CreateTaskWorkspace_stops ==
    /\ pc = "workspace"
    /\ task_config.id \in DOMAIN registry \/ Cardinality(disk) < MaxDirs
    /\ LET w == create_workspace(registry, disk, task_config.id, None, TRUE)
       IN  /\ registry' = w.registry
           /\ disk' = w.disk
           /\ IF w.raised
              THEN /\ tasks' = mark_task_failed(tasks, task_config.id,
                                                "Unexpected error")
                   /\ AfterTask(Result(task_config.id, FALSE, "Unexpected error",
                                       "failed", None, FALSE))
              ELSE /\ tasks' = update_task(tasks, task_config.id,
                                           [workspace_path |-> w.path])
                   /\ pc' = "execute"
                   /\ UNCHANGED run
    /\ UNCHANGED ret
    /\ UNCHANGED service_vars

\* process_single_task: create the workspace and record its path; an
\* exception goes to the handler, which marks the task failed
CreateTaskWorkspaceStep ==
    /\ pc = "workspace"
    /\ LET w == create_workspace(registry, disk, task_config.id, None, TRUE)
       IN  /\ registry' = w.registry
           /\ disk' = w.disk
           /\ IF w.raised
              THEN /\ tasks' = mark_task_failed(tasks, task_config.id,
                                                "Unexpected error")
                   /\ AfterTask(Result(task_config.id, FALSE, "Unexpected error",
                                       "failed", None, TRUE))
              ELSE /\ tasks' = update_task(tasks, task_config.id,
                                           [workspace_path |-> w.path])
                   /\ pc' = "execute"
                   /\ UNCHANGED run
    /\ UNCHANGED ret
    /\ UNCHANGED service_vars

\* the step while the directories stay within the bound
CreateTaskWorkspace ==
    /\ pc = "workspace"
    /\ task_config.id \in DOMAIN registry \/ Cardinality(disk) < MaxDirs
    /\ CreateTaskWorkspaceStep

\* execution_result.error_message or "Claude Code execution failed"
error_msg(r) ==
    IF r.error_message \notin {None, ""} THEN r.error_message
    ELSE "Claude Code execution failed"

\* mutant: the session id of a paused execution is not saved
ApplyResult_forgets_session(ts, tc, r) ==
    IF r.success THEN mark_task_completed(ts, tc.id)
    ELSE IF r.token_limit_hit
    THEN mark_task_paused(ts, tc.id, "Token limit reached during execution")
    ELSE IF tc.attempts >= tc.max_attempts
    THEN mark_task_failed(ts, tc.id, error_msg(r))
    ELSE reset_task(ts, tc.id)

\* mutant: a retried task keeps the session it ran in
ApplyResult_retry_keeps_session(ts, tc, r) ==
    IF r.success THEN mark_task_completed(ts, tc.id)
    ELSE IF r.token_limit_hit
    THEN mark_task_paused(
             IF r.session_id # None
             THEN update_task(ts, tc.id, [session_id |-> r.session_id]) ELSE ts,
             tc.id, "Token limit reached during execution")
    ELSE IF tc.attempts >= tc.max_attempts
    THEN mark_task_failed(ts, tc.id, error_msg(r))
    ELSE update_task(ts, tc.id,
             [status |-> "pending", started_at |-> None, completed_at |-> None,
              last_error |-> None])

\* mutant: a successful task is not marked completed
ApplyResult_leaves_running(ts, tc, r) ==
    IF r.success THEN ts
    ELSE IF r.token_limit_hit
    THEN mark_task_paused(
             IF r.session_id # None
             THEN update_task(ts, tc.id, [session_id |-> r.session_id]) ELSE ts,
             tc.id, "Token limit reached during execution")
    ELSE IF tc.attempts >= tc.max_attempts
    THEN mark_task_failed(ts, tc.id, error_msg(r))
    ELSE reset_task(ts, tc.id)

\* what process_single_task does with the execution result
ApplyResult(ts, tc, r) ==
    IF r.success THEN mark_task_completed(ts, tc.id)
    ELSE IF r.token_limit_hit
    THEN mark_task_paused(
             IF r.session_id # None
             THEN update_task(ts, tc.id, [session_id |-> r.session_id]) ELSE ts,
             tc.id, "Token limit reached during execution")
    ELSE IF tc.attempts >= tc.max_attempts
    THEN mark_task_failed(ts, tc.id, error_msg(r))
    ELSE reset_task(ts, tc.id)

\* the dictionary process_single_task returns after an execution
ResultOf(tc, r) ==
    IF r.success THEN Result(tc.id, TRUE, None, "completed", None, TRUE)
    ELSE IF r.token_limit_hit
    THEN Result(tc.id, FALSE, "Token limit reached", "paused", r.session_id, FALSE)
    ELSE IF tc.attempts >= tc.max_attempts
    THEN Result(tc.id, FALSE, error_msg(r), "failed", None, TRUE)
    ELSE Result(tc.id, FALSE, error_msg(r), "pending", None, TRUE)

\* process_single_task: render the prompt, execute and apply the result
Execute(o) ==
    /\ pc = "execute"
    /\ LET r == execute_task(task_config.session_id, o)
       IN  /\ tasks' = ApplyResult(tasks, task_config, r)
           /\ AfterTask(ResultOf(task_config, r))
    /\ UNCHANGED <<registry, disk, ret>>
    /\ UNCHANGED service_vars

\* the end of process_tasks_flow
Cleanup ==
    /\ pc = "cleanup"
    /\ LET c == cleanup_all_temporary_workspaces(registry, disk)
       IN  /\ registry' = c.registry
           /\ disk' = c.disk
           /\ ret' = Return(TRUE, run.processed_count, c.count, None)
    /\ pc' = "returned"
    /\ run' = NoRun
    /\ UNCHANGED tasks
    /\ UNCHANGED service_vars

\* The process is stopped in the middle of a run (KeyboardInterrupt, kill):
\* what it wrote so far stays, nothing else of the run happens.
Interrupt ==
    /\ pc \in {"tokens", "select", "mark", "recheck", "workspace", "execute",
               "cleanup"}
    /\ pc' = "idle"
    /\ run' = NoRun
    /\ UNCHANGED <<tasks, registry, disk, ret>>
    /\ UNCHANGED service_vars

\* main.py run_tasks reports the result and the command ends
Finish ==
    /\ pc = "returned"
    /\ pc' = "idle"
    /\ ret' = NoReturn
    /\ UNCHANGED <<tasks, registry, disk, run>>
    /\ UNCHANGED service_vars

----------------------------------------------------------------------------
(* The operations between runs: main.py and the services' own interface *)

AddTask ==
    /\ pc = "idle"
    /\ Len(tasks) < MaxStore
    /\ NextTaskId(tasks) # 0
    /\ tasks' = add_task(tasks)
    /\ UNCHANGED <<registry, disk, pc, run, ret>>
    /\ UNCHANGED service_vars

ResetTask(task_id) ==
    /\ pc = "idle"
    /\ HasTask(tasks, task_id)
    /\ tasks' = reset_task(tasks, task_id)
    /\ UNCHANGED <<registry, disk, pc, run, ret>>
    /\ UNCHANGED service_vars

DeleteTask(task_id) ==
    /\ pc = "idle"
    /\ HasTask(tasks, task_id)
    /\ tasks' = delete_task(tasks, task_id)
    /\ UNCHANGED <<registry, disk, pc, run, ret>>
    /\ UNCHANGED service_vars

CreateWorkspace(task_id, template_name, temporary) ==
    /\ pc = "idle"
    /\ HasTask(tasks, task_id)
    /\ task_id \in DOMAIN registry \/ Cardinality(disk) < MaxDirs
    /\ LET w == create_workspace(registry, disk, task_id, template_name, temporary)
       IN  /\ registry' = w.registry
           /\ disk' = w.disk
    /\ UNCHANGED <<tasks, pc, run, ret>>
    /\ UNCHANGED service_vars

CleanupWorkspace(task_id, force) ==
    /\ pc = "idle"
    /\ task_id \in DOMAIN registry
    /\ LET c == cleanup_workspace(registry, disk, task_id, force)
       IN  /\ registry' = c.registry
           /\ disk' = c.disk
    /\ UNCHANGED <<tasks, pc, run, ret>>
    /\ UNCHANGED service_vars

----------------------------------------------------------------------------

FlowInit ==
    /\ tasks = <<>>
    /\ registry = <<>>
    /\ disk = {}
    /\ pc = "idle"
    /\ run = NoRun
    /\ ret = NoReturn

Init ==
    /\ FlowInit
    /\ yaml_file = InitialFile
    /\ io = NoCall
    /\ call = NoServiceCall

TaskIds == 1..(2 * MaxStore)

Next ==
    \/ \E m \in 0..MaxRunTasks, c \in BOOLEAN, a \in BOOLEAN : StartRun(m, c, a)
    \/ \E s1 \in QuotaStatuses, s2 \in QuotaStatuses, w \in BOOLEAN :
           TokenCheck(s1, s2, w)
    \/ SelectTasks
    \/ MarkRunning
    \/ \E s \in QuotaStatuses : Recheck(s)
    \/ CreateTaskWorkspace
    \/ \E o \in Outcomes : Execute(o)
    \/ Cleanup
    \/ Interrupt
    \/ Finish
    \/ AddTask
    \/ \E id \in TaskIds : ResetTask(id)
    \/ \E id \in TaskIds : DeleteTask(id)
    \/ \E id \in TaskIds, t \in ExistingTemplates, tmp \in BOOLEAN :
           CreateWorkspace(id, t, tmp)
    \/ \E id \in TaskIds, f \in BOOLEAN : CleanupWorkspace(id, f)

Spec == Init /\ [][Next]_vars

----------------------------------------------------------------------------
(* The task store under add and delete alone *)

StoreIds == 1..(2 * MaxStoreOps)

\* add_task; while its id loop spins nothing is written
StoreAdd ==
    /\ Len(tasks) < MaxStoreOps
    /\ NextTaskId(tasks) # 0
    /\ tasks' = add_task(tasks)
    /\ UNCHANGED <<registry, disk, pc, run, ret>>
    /\ UNCHANGED service_vars

StoreDelete(task_id) ==
    /\ HasTask(tasks, task_id)
    /\ tasks' = delete_task(tasks, task_id)
    /\ UNCHANGED <<registry, disk, pc, run, ret>>
    /\ UNCHANGED service_vars

StoreNext ==
    \/ StoreAdd
    \/ \E id \in StoreIds : StoreDelete(id)

StoreSpec == Init /\ [][StoreNext]_vars

----------------------------------------------------------------------------
(* The workspace manager on its own: any task id, template and flag *)

WorkspaceIds == 1..2

WorkspaceCreate(task_id, template_name, temporary) ==
    /\ Cardinality(disk) < MaxWorkspaceDirs
    /\ LET w == create_workspace(registry, disk, task_id, template_name, temporary)
       IN  /\ registry' = w.registry
           /\ disk' = w.disk
           /\ call' = [op |-> "create_workspace",
                       arg |-> <<task_id, template_name, temporary>>,
                       before |-> [registry |-> registry, disk |-> disk],
                       result |-> [raised |-> w.raised, path |-> w.path]]
    /\ UNCHANGED <<tasks, pc, run, ret>>
    /\ UNCHANGED file_vars

WorkspaceCleanup(task_id, force) ==
    /\ LET c == cleanup_workspace(registry, disk, task_id, force)
       IN  /\ registry' = c.registry
           /\ disk' = c.disk
           /\ call' = [op |-> "cleanup_workspace", arg |-> <<task_id, force>>,
                       before |-> [registry |-> registry, disk |-> disk],
                       result |-> c.ok]
    /\ UNCHANGED <<tasks, pc, run, ret>>
    /\ UNCHANGED file_vars

WorkspaceCleanupAll ==
    /\ LET c == cleanup_all_temporary_workspaces(registry, disk)
       IN  /\ registry' = c.registry
           /\ disk' = c.disk
           /\ call' = [op |-> "cleanup_all_temporary_workspaces", arg |-> <<>>,
                       before |-> [registry |-> registry, disk |-> disk],
                       result |-> c.count]
    /\ UNCHANGED <<tasks, pc, run, ret>>
    /\ UNCHANGED file_vars

WorkspaceNext ==
    \/ \E id \in WorkspaceIds, t \in Templates, tmp \in BOOLEAN :
           WorkspaceCreate(id, t, tmp)
    \/ \E id \in WorkspaceIds, f \in BOOLEAN : WorkspaceCleanup(id, f)
    \/ WorkspaceCleanupAll

WorkspaceSpec == Init /\ [][WorkspaceNext]_vars

----------------------------------------------------------------------------
(* The task file on its own: a list is saved, the file may be cut, and is
   loaded *)

IdTexts == <<"task-001", "task-002", "task-003">>
Titles == {"Write tests", "null", "3", "true", "", "a: b", "2026-11-01"}
Errors == {PyNone, PyStr("stderr"), PyStr("~")}

\* a task as add_task leaves it (no error), or as a run leaves it failed
\* after one attempt
FileTask(id, title, last_error) ==
    LET fresh == last_error = PyNone
    IN  [id |-> PyStr(id), title |-> PyStr(title), description |-> PyStr("d"),
         prompt_template |-> PyStr("default"),
         status |-> PyStr(IF fresh THEN "pending" ELSE "failed"),
         created_at |-> PyStr(IsoNow),
         started_at |-> IF fresh THEN PyNone ELSE PyStr(IsoNow),
         completed_at |-> IF fresh THEN PyNone ELSE PyStr(IsoNow),
         attempts |-> PyInt(IF fresh THEN 0 ELSE 1),
         max_attempts |-> PyInt(DefaultMaxAttempts),
         last_error |-> last_error, session_id |-> PyNone,
         workspace_path |-> PyNone]

\* the list handed to save_tasks, built from a choice of title and error for
\* each of its tasks
TaskList(c) ==
    [i \in DOMAIN c |-> FileTask(IdTexts[i], c[i].title, c[i].last_error)]

FileInit ==
    /\ FlowInit
    /\ yaml_file = InitialFile
    /\ \E n \in 0..MaxFileTasks :
           \E c \in [1..n -> [title : Titles, last_error : Errors]] :
               io = [NoCall EXCEPT !.op = "input", !.arg = TaskList(c)]
    /\ call = NoServiceCall

FileSave(outcome) ==
    /\ io.op = "input"
    /\ \E r \in save_tasks(yaml_file, io.arg, outcome) :
           /\ yaml_file' = r.file
           /\ io' = [io EXCEPT !.op = "save", !.write = outcome,
                               !.raised = r.raised]
    /\ UNCHANGED flow_vars
    /\ UNCHANGED call

FileLoad ==
    /\ io.op \in {"input", "save", "damage"}
    /\ LET r == load_tasks(yaml_file)
       IN  io' = [io EXCEPT !.op = "load", !.raised = r.raised,
                            !.result = r.tasks,
                            !.after_save = (io.op = "save" /\ ~io.raised),
                            !.found = IF yaml_file.state = "missing" THEN "missing"
                                      ELSE IF yaml_file.damaged THEN "corrupt"
                                      ELSE "intact"]
    /\ UNCHANGED yaml_file
    /\ UNCHANGED flow_vars
    /\ UNCHANGED call

\* the file is removed, or cut short, by something outside the program
FileDamage ==
    /\ io.op \in {"input", "save"}
    /\ yaml_file' \in (Damaged(yaml_file) \cup {MissingFile}) \ {yaml_file}
    /\ io' = [io EXCEPT !.op = "damage"]
    /\ UNCHANGED flow_vars
    /\ UNCHANGED call

FileNext ==
    \/ \E outcome \in WriteOutcomes : FileSave(outcome)
    \/ FileLoad
    \/ FileDamage

FileSpec == FileInit /\ [][FileNext]_vars

----------------------------------------------------------------------------
(* The quota monitor on its own: `claude-code /status` answered in some way,
   and one of the monitor's methods is called *)

MonitorInit ==
    /\ FlowInit
    /\ yaml_file = InitialFile
    /\ io = NoCall
    /\ \E o \in StatusFailures
              \cup {StatusExit(0, StatusText(m, r)) :
                        m \in MessagePhrases, r \in ResetPhrases} :
           call = [op |-> "status", arg |-> o, before |-> <<>>, result |-> <<>>]

MonitorCheckStatus ==
    /\ call.op = "status"
    /\ call' = [call EXCEPT !.op = "check_token_status",
                            !.result = check_token_status(call.arg)]
    /\ UNCHANGED <<flow_vars, file_vars>>

MonitorCanRun ==
    /\ call.op = "status"
    /\ LET status == check_token_status(call.arg)
       IN  call' = [call EXCEPT !.op = "can_run_tasks",
                                !.result = [status |-> status,
                                            can_run |-> can_run_tasks(status),
                                            reason |-> can_run_reason(status)]]
    /\ UNCHANGED <<flow_vars, file_vars>>

MonitorUsageSummary ==
    /\ call.op = "status"
    /\ call' = [call EXCEPT !.op = "get_usage_summary",
                            !.result = get_usage_summary(
                                           check_token_status(call.arg))]
    /\ UNCHANGED <<flow_vars, file_vars>>

MonitorNext ==
    \/ MonitorCheckStatus
    \/ MonitorCanRun
    \/ MonitorUsageSummary

MonitorSpec == MonitorInit /\ [][MonitorNext]_vars

----------------------------------------------------------------------------
(* wait_for_token_reset on its own: a loop of checks and sleeps against a
   clock that counts the seconds since start_time *)

\* what the status command may answer at a check of the loop
WaitOutputs ==
    StatusFailures
    \cup {StatusExit(0, StatusText([form |-> "U/L messages", U |-> u, L |-> l], r)) :
              u \in {19}, l \in {20, 225},
              r \in {x \in ResetPhrases :
                        \/ x.form \in {"none", "M minutes remaining"}
                        \/ x.form = "Hh Mm remaining" /\ x.H = 4 /\ x.M = 10}}

\* the seconds a status check takes: the timeout when it ran into it
CheckDuration(o) == IF o.kind = "timeout" THEN status_timeout ELSE 0

\* the call starts with the last_check an earlier check left, if any
WaitInit ==
    /\ FlowInit
    /\ yaml_file = InitialFile
    /\ io = NoCall
    /\ \E o \in WaitOutputs :
           call = [op |-> "wait_for_token_reset", pc |-> "while", elapsed |-> 0,
                   last_check |-> check_token_status(o), checks |-> 0,
                   can_run |-> FALSE, slept |-> 0, result |-> FALSE]

\* while datetime.now(timezone.utc) - start_time < max_wait_time
WaitTest ==
    /\ call.op = "wait_for_token_reset"
    /\ call.pc = "while"
    /\ call' = [call EXCEPT !.pc = IF call.elapsed < max_wait_time
                                   THEN "check" ELSE "done",
                            !.result = FALSE]
    /\ UNCHANGED <<flow_vars, file_vars>>

\* can_run, reason = self.can_run_tasks()
WaitCheck(o) ==
    /\ call.op = "wait_for_token_reset"
    /\ call.pc = "check"
    /\ LET status == check_token_status(o)
       IN  call' = [call EXCEPT !.pc = "checked",
                                !.elapsed = @ + CheckDuration(o),
                                !.last_check = IF status.known THEN status ELSE @,
                                !.checks = 1,
                                !.can_run = can_run_tasks(status)]
    /\ UNCHANGED <<flow_vars, file_vars>>

\* return True, or sleep and go round again
WaitReturnOrSleep ==
    /\ call.op = "wait_for_token_reset"
    /\ call.pc = "checked"
    /\ call' = IF call.can_run
               THEN [call EXCEPT !.pc = "done", !.result = TRUE]
               ELSE [call EXCEPT !.pc = "while",
                                 !.elapsed = @ + sleep_time(call.last_check),
                                 !.slept = sleep_time(call.last_check)]
    /\ UNCHANGED <<flow_vars, file_vars>>

WaitNext ==
    \/ WaitTest
    \/ \E o \in WaitOutputs : WaitCheck(o)
    \/ WaitReturnOrSleep

\* the loop is one sequential call: the status command returns or times
\* out, and a sleep ends
WaitSpec == WaitInit /\ [][WaitNext]_vars /\ WF_vars(WaitNext)

----------------------------------------------------------------------------
(* The executor on its own: execute_task on a workspace with a process that
   prints, exits, writes and deletes in some way; and _detect_file_changes
   on two snapshots *)

\* texts the external process may print on stdout or stderr
OutputTexts ==
    {<<>>,   \* ""
     <<"o", "k">>,   \* "ok"
     <<"R", "a", "t", "e", " ", "L", "i", "m", "i", "t", " ", "h", "i",
       "t">>,   \* "Rate Limit hit"
     <<"r", "a", "t", "e", " ">>,   \* "rate "
     <<"l", "i", "m", "i", "t">>,   \* "limit"
     <<"u", "s", "a", "g", "e", " ", "l", "i", "m", "i", "t">>,   \* "usage limit"
     <<"T", "O", "K", "E", "N", " ", "L", "I", "M", "I", "T">>,   \* "TOKEN LIMIT"
     <<"Q", "u", "o", "t", "a", " ", "e", "x", "c", "e", "e", "d", "e",
       "d">>,   \* "Quota exceeded"
     <<"l", "i", "m", "i", "t", " ", "r", "e", "a", "c", "h", "e", "d">>,   \* "limit reached"
     <<"T", "o", "o", " ", "m", "a", "n", "y", " ", "r", "e", "q", "u",
       "e", "s", "t", "s">>,   \* "Too many requests"
     <<"c", "a", "p", "a", "c", "i", "t", "y", " ", "l", "i", "m", "i",
       "t">>,   \* "capacity limit"
     <<"a", "c", "c", "e", "l", "e", "r", "a", "t", "e", " ", "l", "i",
       "m", "i", "t", "s">>,   \* "accelerate limits"
     <<"r", "a", "t", "e", " ", " ", "l", "i", "m", "i", "t">>,   \* "rate  limit"
     <<"e", "r", "r", "o", "r">>}   \* "error"


Workspaces == UNION {[S -> 1..MaxMtime] : S \in SUBSET Paths}

Process(kind, return_code, stdout, stderr, session, writes, deletes) ==
    [kind |-> kind, return_code |-> return_code, stdout |-> stdout,
     stderr |-> stderr, session |-> session, writes |-> writes,
     deletes |-> deletes]

ExecuteInput(ws, now, session_id, process) ==
    [op |-> "execute_task input",
     arg |-> [workspace |-> ws, now |-> now, session_id |-> session_id,
              process |-> process],
     before |-> <<>>, result |-> <<>>]

\* either the process prints some texts and leaves the files alone, or it
\* prints "ok" and writes and deletes some files of a workspace
ExecutorInit ==
    /\ FlowInit
    /\ yaml_file = InitialFile
    /\ io = NoCall
    /\ \/ \E stdout \in OutputTexts, stderr \in OutputTexts,
             return_code \in {0, 1}, session_id \in SessionIds \cup {None} :
              call = ExecuteInput(<<>>, MaxMtime, session_id,
                                  Process("exit", return_code, stdout, stderr,
                                          None, {}, {}))
       \/ \E ws \in Workspaces, now \in {MaxMtime, MaxMtime + 1},
             k \in {<<"exit", 0>>, <<"exit", 1>>, <<"timeout", 0 - 1>>,
                    <<"exception", 0 - 1>>},
             writes \in SUBSET Paths :
              \E deletes \in SUBSET (Paths \ writes) :
                  call = ExecuteInput(ws, now, None,
                                      Process(k[1], k[2], <<"o", "k">>, <<>>,
                                              None, writes, deletes))
       \/ \E initial_files \in Workspaces, final_files \in Workspaces :
              call = [op |-> "snapshots",
                      arg |-> [initial_files |-> initial_files,
                               final_files |-> final_files],
                      before |-> <<>>, result |-> <<>>]

ExecuteTask ==
    /\ call.op = "execute_task input"
    /\ LET a == call.arg
           o == [kind |-> a.process.kind, return_code |-> a.process.return_code,
                 stderr |-> a.process.stderr,
                 limit_phrase |-> check_token_limit_in_output(
                                      a.process.stdout, a.process.stderr),
                 session |-> a.process.session]
           r == execute_task(a.session_id, o)
       IN  call' = [call EXCEPT
                      !.op = "execute_task",
                      !.result = [success |-> r.success,
                                  token_limit_hit |-> r.token_limit_hit,
                                  session_id |-> r.session_id,
                                  changed_files |->
                                      changed_files(a.workspace, a.now, a.process)]]
    /\ UNCHANGED <<flow_vars, file_vars>>

DetectFileChanges ==
    /\ call.op = "snapshots"
    /\ call' = [call EXCEPT !.op = "detect_file_changes",
                            !.result = detect_file_changes(
                                           call.arg.initial_files,
                                           call.arg.final_files)]
    /\ UNCHANGED <<flow_vars, file_vars>>

ExecutorNext ==
    \/ ExecuteTask
    \/ DetectFileChanges

ExecutorSpec == ExecutorInit /\ [][ExecutorNext]_vars

----------------------------------------------------------------------------
(* The commands of main.py and update_task on their own: one call on a store
   and a registry that earlier commands and runs have left *)

\* the answers typer.confirm can get; an abort raises before anything is done
Answers == {"yes", "no", "abort"}

\* reset_task for each of the tasks found failed
RECURSIVE ResetEach(_, _, _)
ResetEach(ts, found, n) ==
    IF n = 0 THEN ts ELSE reset_task(ResetEach(ts, found, n - 1), found[n].id)

\* delete_task for each of the tasks found completed
RECURSIVE DeleteEach(_, _, _)
DeleteEach(ts, found, n) ==
    IF n = 0 THEN ts ELSE delete_task(DeleteEach(ts, found, n - 1), found[n].id)

\* cleanup_flow: the temporary workspaces always, the tasks as asked
cleanup_flow(ts, reg, dk, cleanup_failed, cleanup_completed) ==
    LET c == cleanup_all_temporary_workspaces(reg, dk)
        failed_tasks == get_tasks_by_status(ts, "failed")
        after_reset == IF cleanup_failed
                       THEN ResetEach(ts, failed_tasks, Len(failed_tasks)) ELSE ts
        completed_tasks == get_tasks_by_status(after_reset, "completed")
        after_delete == IF cleanup_completed
                        THEN DeleteEach(after_reset, completed_tasks,
                                        Len(completed_tasks))
                        ELSE after_reset
    IN  [tasks |-> after_delete, registry |-> c.registry, disk |-> c.disk,
         cleaned_workspaces |-> c.count,
         reset_tasks |-> IF cleanup_failed THEN Len(failed_tasks) ELSE 0,
         deleted_tasks |-> IF cleanup_completed THEN Len(completed_tasks) ELSE 0]

\* whether the command goes ahead: --yes, or the prompt answered with yes
Confirmed(confirm, answer) == confirm \/ answer = "yes"

\* mutant: the delete command does not ask
main_delete_task_unasked(ts, task_id, confirm, answer) ==
    IF ~HasTask(ts, task_id) THEN ts ELSE delete_task(ts, task_id)

\* the delete command of main.py
main_delete_task(ts, task_id, confirm, answer) ==
    IF ~HasTask(ts, task_id) THEN ts
    ELSE IF Confirmed(confirm, answer) THEN delete_task(ts, task_id)
    ELSE ts

\* the cleanup command of main.py
main_cleanup(ts, reg, dk, workspaces, failed_tasks, completed_tasks, confirm, answer) ==
    IF ~(workspaces \/ failed_tasks \/ completed_tasks)
    THEN [tasks |-> ts, registry |-> reg, disk |-> dk]
    ELSE IF Confirmed(confirm, answer)
    THEN LET r == cleanup_flow(ts, reg, dk, failed_tasks, completed_tasks)
         IN  [tasks |-> r.tasks, registry |-> r.registry, disk |-> r.disk]
    ELSE [tasks |-> ts, registry |-> reg, disk |-> dk]

\* a task in one of the states a run leaves it in
TaskIn(id, status, session_id) ==
    LET added == <<TaskConfig(id)>>
        running == mark_task_running(added, id, None)
        with_session == IF session_id = None THEN running
                        ELSE update_task(running, id, [session_id |-> session_id])
    IN  CASE status = "pending" -> added[1]
          [] status = "running" -> running[1]
          [] status = "completed" -> mark_task_completed(running, id)[1]
          [] status = "failed" -> mark_task_failed(running, id, "error")[1]
          [] status = "paused" ->
                 mark_task_paused(with_session, id, "Token limit reached")[1]

CommandIds == 1..MaxStore

\* the workspaces made from the template before the command, for the task
\* ids 1..n: none, a temporary one or a persistent one
WorkspaceKinds == {"none", "temporary", "persistent"}
RECURSIVE WorkspacesOf(_, _)
WorkspacesOf(kinds, n) ==
    IF n = 0 THEN [registry |-> <<>>, disk |-> {}]
    ELSE LET earlier == WorkspacesOf(kinds, n - 1)
             w == create_workspace(earlier.registry, earlier.disk, n, "tpl",
                                   kinds[n] = "temporary")
         IN  IF kinds[n] = "none" THEN earlier
             ELSE [registry |-> w.registry, disk |-> w.disk]

\* the keyword arguments of update_task that are tried; priority is not a
\* field of a task
UpdateKinds == 1..5
UpdatesOf(kind) ==
    CASE kind = 1 -> [status |-> "paused"]
      [] kind = 2 -> [workspace_path |-> PersistentPath(1)]
      [] kind = 3 -> [session_id |-> "s1", last_error |-> "error"]
      [] kind = 4 -> [priority |-> 1]
      [] kind = 5 -> [attempts |-> 2, title |-> "other"]

CommandInit ==
    /\ \E n \in 0..MaxStore :
       \E ids \in [1..n -> CommandIds], st \in [1..n -> Statuses],
          se \in [1..n -> SessionIds \cup {None}] :
           /\ \A i, j \in 1..n : i < j => ids[i] < ids[j]
           /\ \A i \in 1..n : se[i] # None => st[i] = "paused"
           /\ tasks = [i \in 1..n |-> TaskIn(ids[i], st[i], se[i])]
    /\ \E kinds \in [CommandIds -> WorkspaceKinds] :
           /\ registry = WorkspacesOf(kinds, MaxStore).registry
           /\ disk = WorkspacesOf(kinds, MaxStore).disk
    /\ pc = "idle"
    /\ run = NoRun
    /\ ret = NoReturn
    /\ yaml_file = InitialFile
    /\ io = NoCall
    /\ call = NoServiceCall

CommandBefore == [tasks |-> tasks, registry |-> registry, disk |-> disk]

CommandUpdateTask(task_id, kind) ==
    /\ call.op = "none"
    /\ tasks' = update_task(tasks, task_id, UpdatesOf(kind))
    /\ call' = [op |-> "update_task", arg |-> <<task_id, kind>>,
                before |-> CommandBefore,
                result |-> update_task_found(tasks, task_id)]
    /\ UNCHANGED <<registry, disk, pc, run, ret>>
    /\ UNCHANGED file_vars

CommandDeleteTask(task_id, confirm, answer) ==
    /\ call.op = "none"
    /\ tasks' = main_delete_task(tasks, task_id, confirm, answer)
    /\ call' = [op |-> "delete", arg |-> <<task_id>>,
                before |-> CommandBefore,
                result |-> [confirm |-> confirm, answer |-> answer]]
    /\ UNCHANGED <<registry, disk, pc, run, ret>>
    /\ UNCHANGED file_vars

CommandCleanup(workspaces, failed_tasks, completed_tasks, confirm, answer) ==
    /\ call.op = "none"
    /\ LET r == main_cleanup(tasks, registry, disk, workspaces, failed_tasks,
                             completed_tasks, confirm, answer)
       IN  /\ tasks' = r.tasks
           /\ registry' = r.registry
           /\ disk' = r.disk
    /\ call' = [op |-> "cleanup",
                arg |-> <<workspaces, failed_tasks, completed_tasks>>,
                before |-> CommandBefore,
                result |-> [confirm |-> confirm, answer |-> answer]]
    /\ UNCHANGED <<pc, run, ret>>
    /\ UNCHANGED file_vars

CommandNext ==
    \/ \E id \in 1..(MaxStore + 1), kind \in UpdateKinds :
           CommandUpdateTask(id, kind)
    \/ \E id \in 1..(MaxStore + 1), confirm \in BOOLEAN, answer \in Answers :
           CommandDeleteTask(id, confirm, answer)
    \/ \E w, f, c, confirm \in BOOLEAN, answer \in Answers :
           CommandCleanup(w, f, c, confirm, answer)

CommandSpec == CommandInit /\ [][CommandNext]_vars

----------------------------------------------------------------------------
(* Runs one after another on a store of pending tasks, with the tool
   available, the quota checks passing and every execution failing without a
   quota signal; nothing is added, reset or deleted between the runs *)

\* a status of the quota that lets tasks run
PassingStatus == Usage(200)

\* the executions that fail and do not report the quota
FailingOutcomes ==
    {o \in Outcomes : /\ ~execute_task(None, o).success
                      /\ ~execute_task(None, o).token_limit_hit}

RECURSIVE Added(_)
Added(n) == IF n = 0 THEN <<>> ELSE add_task(Added(n - 1))

RetryInit ==
    /\ \E n \in 1..MaxStore : tasks = Added(n)
    /\ \E kinds \in [CommandIds -> WorkspaceKinds] :
           /\ registry = WorkspacesOf(kinds, MaxStore).registry
           /\ disk = WorkspacesOf(kinds, MaxStore).disk
    /\ pc = "idle"
    /\ run = NoRun
    /\ ret = NoReturn
    /\ yaml_file = InitialFile
    /\ io = NoCall
    /\ call = NoServiceCall

RetryNext ==
    \/ \E m \in 1..MaxRunTasks, c \in BOOLEAN : StartRunStep(m, c, TRUE)
    \/ TokenCheck(PassingStatus, PassingStatus, TRUE)
    \/ SelectTasks
    \/ MarkRunning
    \/ Recheck(PassingStatus)
    \/ CreateTaskWorkspaceStep
    \/ \E o \in FailingOutcomes : Execute(o)
    \/ Cleanup
    \/ Finish

\* the flow is run again and again, and a run takes its next step
RetrySpec == RetryInit /\ [][RetryNext]_vars /\ WF_vars(RetryNext)

----------------------------------------------------------------------------
(* Properties *)

Last(s) == s[Len(s)]

\* the steps of a run: everything but the operations between runs
InRun == pc # "idle"

\* the task process_single_task is working on
Processing(t) ==
    pc \in {"mark", "recheck", "workspace", "execute"} /\ t.id = task_config.id

\* C1: attempts changes only when the task is marked running, and each
\* transition into running raises it by exactly 1; completing, failing,
\* pausing, the retry and reset leave it as it is.
C1_AttemptsOnlyOnRunning ==
    [][\A i \in 1..Len(tasks), j \in 1..Len(tasks') :
          tasks[i].id = tasks'[j].id =>
              /\ tasks'[j].attempts # tasks[i].attempts =>
                     /\ tasks'[j].attempts = tasks[i].attempts + 1
                     /\ tasks'[j].status = "running"
                     /\ tasks[i].status # "running"
              /\ (tasks'[j].status = "running" /\ tasks[i].status # "running") =>
                     tasks'[j].attempts = tasks[i].attempts + 1]_vars

\* a task marked running for the third time, after two retries
C1_Witness ==
    \E i \in 1..Len(tasks) :
        tasks[i].status = "running" /\ tasks[i].attempts = 3

\* C2: after a failed execution (no success, no quota signal) of a task whose
\* persisted attempts reached max_attempts, the task is failed and is not put
\* back to pending.
C2_FailedAtMaxAttempts ==
    \A k \in 1..Len(run.results) :
        LET r == run.results[k]
            t == get_task(tasks, r.task_id)
        IN  (/\ ~r.success
             /\ r.status \in {"pending", "failed"}
             /\ r.error # "Unexpected error"
             /\ t.attempts >= t.max_attempts)
            => t.status = "failed"

\* C3: every status change a run makes is a transition of the state machine,
\* a run neither adds nor removes tasks, and the status stays one of the five.
C3_Allowed(t, u) ==
    \/ u.status = t.status
    \/ t.status = "pending" /\ u.status = "running"
    \/ t.status = "paused" /\ t.session_id # None /\ u.status = "running"
    \/ t.status = "running" /\ u.status \in {"completed", "paused", "pending", "failed"}
    \/ t.status = "pending" /\ u.status = "paused"

C3_RunTransitions ==
    [][InRun =>
          /\ Len(tasks') = Len(tasks)
          /\ \A i \in 1..Len(tasks) :
                 /\ tasks'[i].id = tasks[i].id
                 /\ tasks'[i].status \in Statuses
                 /\ C3_Allowed(tasks[i], tasks'[i])]_vars

\* a run that retried its first task and paused its second
C3_Witness ==
    /\ pc = "cleanup"
    /\ Len(run.results) = 2
    /\ run.results[1].status = "pending"
    /\ run.results[2].status = "paused"

\* C4: a run never selects or changes a completed or failed task; such a
\* record changes only by a reset, which makes it pending, or by a delete.
C4_Terminal(t) == t.status \in {"completed", "failed"}

C4_TerminalUntouched ==
    [][\A i \in 1..Len(tasks) :
          C4_Terminal(tasks[i]) =>
              IF InRun
              THEN /\ Len(tasks') = Len(tasks)
                   /\ tasks'[i] = tasks[i]
                   /\ (pc = "select" /\ pc' = "mark") =>
                          tasks[i].id \notin Ids(run'.pending_tasks)
              ELSE \/ ~HasTask(tasks', tasks[i].id)
                   \/ get_task(tasks', tasks[i].id) = tasks[i]
                   \/ get_task(tasks', tasks[i].id) =
                          [tasks[i] EXCEPT !.status = "pending",
                                           !.started_at = None,
                                           !.completed_at = None,
                                           !.last_error = None,
                                           !.session_id = None]]_vars

\* a run starts on its first task while a completed and a failed task are in
\* the store
C4_Witness ==
    /\ pc = "recheck"
    /\ run.i = 1
    /\ \E i \in 1..Len(tasks) :
           C4_Terminal(tasks[i]) /\ tasks[i].id # task_config.id

\* C5: a run selects the first max_tasks of the pending tasks in store order
\* followed by the paused tasks with a session id in store order, and changes
\* no other task: a paused task without session id and a task found running
\* stay as they are.
C5_Eligible(t) ==
    t.status = "pending" \/ (t.status = "paused" /\ t.session_id # None)

\* i comes before j in the order of selection
C5_Before(ts, i, j) ==
    \/ ts[i].status = "pending" /\ ts[j].status # "pending"
    \/ (ts[i].status = "pending" <=> ts[j].status = "pending") /\ i < j

\* the place of eligible task i in the selection
C5_Rank(ts, i) ==
    1 + Cardinality({j \in 1..Len(ts) : C5_Eligible(ts[j]) /\ C5_Before(ts, j, i)})

C5_Selection(sel, ts, max_tasks) ==
    LET eligible == {i \in 1..Len(ts) : C5_Eligible(ts[i])}
    IN  /\ Len(sel) = IF Cardinality(eligible) < max_tasks
                      THEN Cardinality(eligible) ELSE max_tasks
        /\ \A k \in 1..Len(sel) :
               \E i \in eligible : C5_Rank(ts, i) = k /\ sel[k] = ts[i]

C5_SelectionInOrder ==
    [][/\ pc = "select" =>
              \/ pc' = "idle"
              \/ /\ pc' = "returned"
                 /\ C5_Selection(<<>>, tasks, run.max_tasks)
              \/ /\ pc' = "mark"
                 /\ run'.pending_tasks # <<>>
                 /\ C5_Selection(run'.pending_tasks, tasks, run.max_tasks)
       /\ InRun =>
              \A i \in 1..Len(tasks) :
                  (tasks[i].id \notin Ids(run.pending_tasks)
                   \/ ~Processing(tasks[i]))
                  => tasks'[i] = tasks[i]]_vars

\* a pending task stored after a resumable paused task is selected before it
C5_Witness ==
    /\ pc = "mark"
    /\ run.i = 1
    /\ Len(tasks) = 2
    /\ tasks[1].status = "paused"
    /\ run.pending_tasks = <<tasks[2], tasks[1]>>

\* C6: when an execution result carries the quota signal the task is paused,
\* the session id of the result is stored when there is one, and the run
\* halts: the tasks selected after it keep their status and attempts up to
\* the end of the run.
C6_QuotaPause ==
    \A k \in 1..Len(run.results) :
        LET r == run.results[k]
            t == get_task(tasks, r.task_id)
        IN  r.error = "Token limit reached" =>
                /\ k = Len(run.results)
                /\ pc = "cleanup"
                /\ t.status = "paused"
                /\ r.session_id # None => t.session_id = r.session_id
                /\ \A j \in (k + 1)..Len(run.pending_tasks) :
                       LET s == run.pending_tasks[j]
                       IN  /\ get_task(tasks, s.id).status = s.status
                           /\ get_task(tasks, s.id).attempts = s.attempts

C6_QuotaPauseHalts ==
    [][C6_QuotaPause' /\ (pc = "cleanup" => tasks' = tasks)]_vars

\* a new session hit the quota with one more task selected behind it
C6_Witness ==
    /\ pc = "cleanup"
    /\ Len(run.pending_tasks) = 2
    /\ Len(run.results) = 1
    /\ run.results[1].error = "Token limit reached"
    /\ run.pending_tasks[1].session_id = None
    /\ get_task(tasks, run.results[1].task_id).session_id = "s1"

\* C7: a failed quota re-check leaves the task paused, creates no workspace,
\* executes nothing and ends the loop with every other task untouched; the
\* external tool is executed only for a task that is marked running and whose
\* re-check passed.
C7_RecheckGate ==
    [][/\ (pc = "recheck" /\ pc' \notin {"workspace", "idle"}) =>
              /\ pc' = "cleanup"
              /\ get_task(tasks', task_config.id).status = "paused"
              /\ Last(run'.results).task_id = task_config.id
              /\ UNCHANGED <<registry, disk>>
              /\ \A i \in 1..Len(tasks) :
                     tasks[i].id # task_config.id => tasks'[i] = tasks[i]
       /\ (pc = "recheck" /\ pc' = "workspace") => run'.can_run
       /\ pc' = "execute" => pc \in {"workspace", "execute"}
       /\ pc = "execute" =>
              /\ run.can_run
              /\ get_task(tasks, task_config.id).status = "running"
       /\ pc = "cleanup" => tasks' = tasks]_vars

\* the first of two selected tasks was paused by the re-check
C7_Witness ==
    /\ pc = "cleanup"
    /\ Len(run.pending_tasks) = 2
    /\ Len(run.results) = 1
    /\ run.results[1].status = "paused"
    /\ run.results[1].error # "Token limit reached"
    /\ get_task(tasks, run.pending_tasks[2].id).status = "pending"
    /\ disk = {}

\* C8: an exception while a task is processed makes the task failed with a
\* last_error and the loop goes on to the next selected task; the loop ends
\* early only after a quota outcome.
C8_ExceptionContinues ==
    /\ \A k \in 1..Len(run.results) :
           LET r == run.results[k]
               t == get_task(tasks, r.task_id)
           IN  r.error = "Unexpected error" =>
                   /\ t.status = "failed"
                   /\ t.last_error = "Unexpected error"
                   /\ t.completed_at # None
    /\ pc \in {"mark", "recheck", "workspace", "execute"} =>
           run.i = Len(run.results) + 1
    /\ pc = "cleanup" =>
           /\ run.results # <<>>
           /\ \/ Len(run.results) = Len(run.pending_tasks)
              \/ /\ Last(run.results).status = "paused"
                 /\ Last(run.results).error
                        \in {"Token limit reached",
                             "Could not check Claude Code token status",
                             "above critical threshold"}

\* the second task is being processed after the first raised
C8_Witness ==
    /\ pc = "recheck"
    /\ run.i = 2
    /\ run.results[1].error = "Unexpected error"
    /\ get_task(tasks, run.results[1].task_id).status = "failed"

\* C9: a run that finds the external tool unavailable returns success=false
\* and processed=0 at once and leaves the task store, the workspace registry
\* and the directories as they were.
C9_Unavailable == "Claude Code not available"

C9_UnavailableAborts ==
    [][/\ (ret'.error = C9_Unavailable /\ ret # ret') =>
              /\ pc = "idle" /\ pc' = "returned"
              /\ ~ret'.success
              /\ ret'.processed = 0
              /\ UNCHANGED <<tasks, registry, disk>>
       /\ (pc = "idle" /\ pc' = "returned") => ret'.error = C9_Unavailable]_vars

\* the abort with a pending task and a temporary workspace in place
C9_Witness ==
    /\ pc = "returned"
    /\ ret.error = C9_Unavailable
    /\ \E i \in 1..Len(tasks) : tasks[i].status = "pending"
    /\ TemporaryIds(registry) # {}

\* C10: with the quota check enabled, a run goes on to select tasks and mark
\* one running only after the quota check passed (at once, or after the wait
\* for a reset).
C10_QuotaGate ==
    [][(pc = "select" /\ pc' = "mark" /\ run.check_tokens) =>
          (run.can_proceed \/ run.waited)]_vars

C12_NotFromExecution(r) ==
    \/ r.success
    \/ r.error \in {"Unexpected error",
                    "Could not check Claude Code token status",
                    "above critical threshold"}

C12_FreshTaskCompletes ==
    (/\ pc = "cleanup"
     /\ ~run.check_tokens
     /\ Len(run.pending_tasks) = 1
     /\ run.pending_tasks[1] = TaskConfig(run.pending_tasks[1].id)
     /\ C12_NotFromExecution(run.results[1]))
    => /\ run.results[1].success
       /\ get_task(tasks, run.pending_tasks[1].id).status = "completed"
       /\ get_task(tasks, run.pending_tasks[1].id).attempts = 1

\* C13: reset_task on an existing task, whatever its status, makes it pending
\* with started_at, completed_at, last_error and session_id cleared and
\* nothing else changed; the reset command changes the store in no other way.
C13_Cleared(t) ==
    [t EXCEPT !.status = "pending", !.started_at = None, !.completed_at = None,
              !.last_error = None, !.session_id = None]

C13_ResetClears ==
    [][/\ \A i \in 1..Len(tasks) :
              reset_task(tasks, tasks[i].id)
                  = [tasks EXCEPT ![i] = C13_Cleared(tasks[i])]
       /\ (pc = "idle" /\ pc' = "idle" /\ Len(tasks') = Len(tasks)) =>
              \/ tasks' = tasks
              \/ \E i \in 1..Len(tasks) :
                     /\ tasks[i].status \in Statuses
                     /\ tasks' = [tasks EXCEPT ![i] = C13_Cleared(tasks[i])]]_vars

\* a task that was paused with a session id is pending again, its session gone
C13_Witness ==
    /\ pc = "idle"
    /\ \E i \in 1..Len(tasks) :
           /\ tasks[i] = C13_Cleared(tasks[i])
           /\ tasks[i].attempts = 2
    /\ \E i \in 1..Len(tasks) : tasks[i].status = "completed"
    /\ ret = NoReturn

\* C16: a load_tasks that follows a save_tasks returns the saved list: the
\* same length, the same order and the same value, of the same type, in every
\* field of every task.
C16_RoundTrip ==
    (io.op = "load" /\ io.after_save) =>
        /\ ~io.raised
        /\ Len(io.result) = Len(io.arg)
        /\ \A i \in 1..Len(io.arg) : \A f \in Fields :
               io.result[i][f] = io.arg[i][f]

\* two tasks whose titles read as null and as a number came back as strings
C16_Witness ==
    /\ io.op = "load"
    /\ io.after_save
    /\ Len(io.arg) = 2
    /\ io.arg[1].title = PyStr("null")
    /\ io.arg[2].title = PyStr("3")
    /\ io.arg[2].last_error = PyStr("~")
    /\ io.result = io.arg

\* C17: load_tasks of a missing or damaged file does not raise and returns
\* no tasks, and a save_tasks whose write failed raises.
C17_LoadRecovers ==
    /\ (io.op = "load" /\ io.found \in {"missing", "corrupt"}) =>
           ~io.raised /\ io.result = <<>>
    /\ (io.op = "save" /\ io.write # "ok") => io.raised

\* C18: no step of a run removes or adds a task: the ids in the store and
\* their order stay; a task leaves the store only by the delete operation
\* between runs.
C18_RunKeepsTasks ==
    [][/\ InRun =>
              /\ Len(tasks') = Len(tasks)
              /\ \A i \in 1..Len(tasks) : tasks'[i].id = tasks[i].id
       /\ \A id \in Ids(tasks) \ Ids(tasks') :
              pc = "idle" /\ pc' = "idle" /\ tasks' = delete_task(tasks, id)]_vars

\* a run processed two tasks, completed one of them, and both are in the store
C18_Witness ==
    /\ pc = "returned"
    /\ ret.processed = 2
    /\ Len(tasks) = 2
    /\ \E i \in 1..Len(tasks) : tasks[i].status = "completed"

\* C14: under add and delete the ids in the store are pairwise distinct,
\* and the id a terminating add would use is held by no task.
C14_IdsDistinct ==
    /\ \A i \in 1..Len(tasks), j \in 1..Len(tasks) :
           i # j => tasks[i].id # tasks[j].id
    /\ NextTaskId(tasks) # 0 => NextTaskId(tasks) \notin Ids(tasks)

\* add found its first candidate taken twice and used the second one
C14_Witness ==
    /\ Len(tasks) = 3
    /\ tasks[1].id = 2
    /\ tasks[2].id = 3
    /\ tasks[3].id = 5

\* C15: in every store that add and delete can produce, the id loop of add
\* ends with an unused id.
C15_AddTerminates == NextTaskId(tasks) # 0

\* C19: a create_workspace for a task id that was created before (and not
\* cleaned up since), whatever its template and temporary arguments, returns
\* the path of the first call, makes no directory and leaves the registry as
\* it is.
C19_CreatedBefore(task_id) ==
    \/ task_id \in DOMAIN registry
    \/ \E d \in disk : d.task = task_id

C19_SecondCallSame ==
    [][\A id \in WorkspaceIds, t \in Templates, m \in BOOLEAN :
          (WorkspaceCreate(id, t, m) /\ C19_CreatedBefore(id)) =>
              LET w == create_workspace(registry, disk, id, t, m)
              IN  /\ ~w.raised
                  /\ id \in DOMAIN registry
                  /\ w.path = registry[id].workspace_path
                  /\ disk' = disk
                  /\ registry' = registry]_vars

\* C20: when a run creates the workspace of a task that is not registered
\* (no template), the task is registered with a directory that exists and
\* whose path the task records, and every directory under workspaces/ is the
\* workspace of a registered task.
C20_CreateRegisters ==
    [][(pc = "workspace" /\ task_config.id \notin DOMAIN registry
        /\ pc' # "idle") =>
          /\ pc' = "execute"
          /\ task_config.id \in DOMAIN registry'
          /\ registry'[task_config.id].workspace_path \in disk'
          /\ get_task(tasks', task_config.id).workspace_path
                 = registry'[task_config.id].workspace_path
          /\ \A d \in disk' :
                 \E k \in DOMAIN registry' : registry'[k].workspace_path = d]_vars

----------------------------------------------------------------------------
(* The workspace manager's cleanup (WorkspaceSpec) *)

\* the workspaces registered in reg other than those of the ids in gone are
\* what they were in the registry before the call, and so are their directories
RestKept(before, gone) ==
    /\ DOMAIN registry = DOMAIN before.registry \ gone
    /\ \A k \in DOMAIN registry : registry[k] = before.registry[k]
    /\ disk = before.disk \ {before.registry[k].workspace_path :
                                k \in gone \cap DOMAIN before.registry}

C23_OneWorkspacePerTask ==
    /\ \A d1 \in disk, d2 \in disk : d1.task = d2.task => d1 = d2
    /\ \A k \in DOMAIN registry :
           \A d \in disk : d.task = k => d = registry[k].workspace_path

----------------------------------------------------------------------------
(* The quota monitor (MonitorSpec) *)

\* C24: can_run_tasks returns false when check_token_status gave no status,
\* false when the usage is at or above the critical threshold (0.95), and true
\* in every other case.
C24_CanRun ==
    call.op = "can_run_tasks"
        => LET status == call.result.status
           IN  /\ ~status.known => ~call.result.can_run
               /\ (status.known /\ status.pct >= 950) => ~call.result.can_run
               /\ (status.known /\ status.pct < 950) => call.result.can_run

\* usage of exactly 0.95 (19 of 20 messages) was refused
C24_Witness ==
    /\ call.op = "can_run_tasks"
    /\ call.result.status.known
    /\ call.result.status.messages_used = 19
    /\ call.result.status.messages_limit = 20
    /\ call.result.status.pct = 950
    /\ ~call.result.can_run

\* C25: when the status text holds no usage figure (no message pattern
\* matches), no status is reported and can_run_tasks returns false.
C25_UnparseableCannotRun ==
    (/\ call.op = "can_run_tasks"
     /\ call.arg.kind = "exit"
     /\ call.arg.returncode = 0
     /\ call.arg.stdout.messages.form = "none")
        => /\ ~call.result.status.known
           /\ ~call.result.can_run

\* C26: for the text "U/L messages" with L > 0 and no reset phrase the
\* snapshot has messages_used = U, messages_limit = L, percentage_used = U/L
\* and no reset time, and can_run_tasks is true exactly when U/L < 0.95.
C26_RatioText ==
    (/\ call.op = "can_run_tasks"
     /\ call.arg.kind = "exit"
     /\ call.arg.returncode = 0
     /\ call.arg.stdout.messages.form = "U/L messages"
     /\ call.arg.stdout.messages.L > 0
     /\ call.arg.stdout.reset.form = "none")
        => LET U == call.arg.stdout.messages.U
               L == call.arg.stdout.messages.L
               status == call.result.status
           IN  /\ status.known
               /\ status.messages_used = U
               /\ status.messages_limit = L
               /\ status.pct * L <= 1000 * U
               /\ 1000 * U < (status.pct + 1) * L
               /\ ~status.time_until_reset.known
               /\ (call.result.can_run <=> (100 * U < 95 * L))

\* "45/225 messages": 45 of 225, 0.2, can run
C26_Witness ==
    /\ call.op = "can_run_tasks"
    /\ call.arg.kind = "exit"
    /\ call.arg.returncode = 0
    /\ call.arg.stdout.messages = [form |-> "U/L messages", U |-> 45, L |-> 225]
    /\ call.arg.stdout.reset.form = "none"
    /\ call.result.status.messages_used = 45
    /\ call.result.status.messages_limit = 225
    /\ call.result.status.pct = 200
    /\ call.result.can_run

----------------------------------------------------------------------------
(* wait_for_token_reset (WaitSpec) *)

C27_Safe ==
    /\ (call.pc = "done" /\ call.result) => (call.checks = 1 /\ call.can_run)
    /\ (call.pc = "done" /\ ~call.result)
           => (call.elapsed >= max_wait_time /\ ~call.can_run)
    /\ call.slept = 0 \/ (60 <= call.slept /\ call.slept <= 300)
    /\ call.pc \in {"check", "checked"} => call.elapsed < max_wait_time + 30

\* C27: wait_for_token_reset terminates; it returns true only right after a
\* can_run_tasks check that succeeded, returns false only once six hours have
\* passed and the last check did not succeed, and every sleep lasts at least
\* 60 and at most 300 seconds.
C27_WaitTerminates == []C27_Safe /\ <>(call.pc = "done")

\* the call gave up after six hours, the last sleep being the shortest one
C27_Witness ==
    /\ call.op = "wait_for_token_reset"
    /\ call.pc = "done"
    /\ ~call.result
    /\ call.elapsed >= max_wait_time
    /\ call.slept = 60

----------------------------------------------------------------------------
(* The executor (ExecutorSpec) *)

Range(s) == {s[i] : i \in DOMAIN s}

C28_QuotaPhrase(process) ==
    \E indicator \in limit_indicators :
        Contains(lower(process.stdout \o process.stderr), indicator)

\* C28: when the external process returned, success is true exactly when
\* its exit code is 0 and no quota phrase occurs in stdout followed by
\* stderr, letter case aside; success and token_limit_hit are never both
\* true.
C28_SuccessFlag ==
    (call.op = "execute_task" /\ call.arg.process.kind = "exit")
        => /\ (call.result.success
                  <=> (/\ call.arg.process.return_code = 0
                       /\ ~C28_QuotaPhrase(call.arg.process)))
           /\ (call.result.token_limit_hit <=> C28_QuotaPhrase(call.arg.process))
           /\ ~(call.result.success /\ call.result.token_limit_hit)

\* exit code 0 with "rate " on stdout and "limit" on stderr: no success
C28_Witness ==
    /\ call.op = "execute_task"
    /\ call.arg.process.kind = "exit"
    /\ call.arg.process.return_code = 0
    /\ call.arg.process.stdout = <<"r", "a", "t", "e", " ">>
    /\ call.arg.process.stderr = <<"l", "i", "m", "i", "t">>
    /\ ~call.result.success
    /\ call.result.token_limit_hit

\* C29: when the external process returns and wrote no file, changed_files
\* is empty; when it wrote exactly one file, a new one, changed_files holds
\* that file's path and nothing else.
C29_ChangedFiles ==
    (call.op = "execute_task" /\ call.arg.process.kind = "exit")
        => LET writes == call.arg.process.writes
           IN  /\ writes = {} => call.result.changed_files = <<>>
               /\ \A f \in Paths \ DOMAIN call.arg.workspace :
                      writes = {f} => call.result.changed_files = <<f>>

\* C30: _detect_file_changes returns the paths of the second snapshot that
\* are not in the first or have a greater modification time there, each
\* once; a path of the first snapshot alone is not returned.
C30_DetectExact ==
    call.op = "detect_file_changes"
        => LET initial_files == call.arg.initial_files
               final_files == call.arg.final_files
               changed == {f \in DOMAIN final_files :
                              \/ f \notin DOMAIN initial_files
                              \/ final_files[f] > initial_files[f]}
           IN  /\ Range(call.result) = changed
               /\ Len(call.result) = Cardinality(changed)
               /\ \A f \in DOMAIN initial_files \ DOMAIN final_files :
                      f \notin Range(call.result)

\* a new file and a modified file are returned, a deleted file is not
C30_Witness ==
    /\ call.op = "detect_file_changes"
    /\ call.arg.initial_files = (".env" :> 1) @@ ("a.py" :> 1)
    /\ call.arg.final_files = (prompt_file :> 1) @@ ("a.py" :> 2)
    /\ call.result = <<prompt_file, "a.py">>

----------------------------------------------------------------------------
(* Timeouts, retries and sequential processing in a run (Spec) *)

\* C31: when the external process runs into the timeout, execute_task
\* returns a result with success false, no quota signal and the message of
\* the timeout; process_single_task puts the task back to pending or marks
\* it failed, never paused, and the loop goes on to the next task.
C31_TimeoutIsFailure ==
    [][\A o \in Outcomes :
          (o.kind = "timeout" /\ Execute(o)) =>
              LET r == execute_task(task_config.session_id, o)
                  t == get_task(tasks', task_config.id)
              IN  /\ ~r.success
                  /\ ~r.token_limit_hit
                  /\ r.error_message = "Execution timed out"
                  /\ t.status \in {"pending", "failed"}
                  /\ t.status = Last(run'.results).status
                  /\ Last(run'.results).error = "Execution timed out"
                  /\ Last(run'.results).continue_processing
                  /\ pc' = IF run.i < Len(run.pending_tasks)
                           THEN "mark" ELSE "cleanup"]_vars

\* the first task of a run timed out, went back to pending, and the run is
\* at its second task
C31_Witness ==
    /\ pc = "mark"
    /\ run.i = 2
    /\ run.results[1].error = "Execution timed out"
    /\ run.results[1].status = "pending"
    /\ get_task(tasks, run.results[1].task_id).status = "pending"

----------------------------------------------------------------------------
(* The commands of main.py and update_task (CommandSpec) *)

\* the store, the registry and the directories are as before the call
CommandUnchanged ==
    /\ tasks = call.before.tasks
    /\ registry = call.before.registry
    /\ disk = call.before.disk

\* C32: the delete and cleanup commands leave the task store and the
\* workspaces as they were when --yes was not given and the prompt was not
\* answered with yes; with the flag or a yes the delete removes the task and
\* the cleanup removes every temporary workspace.
C32_ConfirmationNeeded ==
    call.op \in {"delete", "cleanup"} =>
        IF ~(call.result.confirm \/ call.result.answer = "yes")
        THEN CommandUnchanged
        ELSE /\ call.op = "delete" => ~HasTask(tasks, call.arg[1])
             /\ (call.op = "cleanup" /\ (call.arg[1] \/ call.arg[2] \/ call.arg[3])) =>
                    /\ \A id \in DOMAIN registry : ~registry[id].is_temporary
                    /\ call.arg[2] => get_tasks_by_status(tasks, "failed") = <<>>
                    /\ call.arg[3] => get_tasks_by_status(tasks, "completed") = <<>>

\* a delete of a stored task was declined at the prompt
C32_Witness ==
    /\ call.op = "delete"
    /\ ~call.result.confirm
    /\ call.result.answer = "no"
    /\ HasTask(call.before.tasks, call.arg[1])
    /\ HasTask(tasks, call.arg[1])

\* C33: update_task of an id that is not stored returns False and leaves
\* the store as it was; of a stored id it returns True, sets the named
\* fields of that one task, and keeps its other fields, every other task
\* and the order of the list.
C33_UpdateTask ==
    call.op = "update_task" =>
        LET before == call.before.tasks
            task_id == call.arg[1]
            updates == UpdatesOf(call.arg[2])
        IN  IF ~HasTask(before, task_id)
            THEN call.result = FALSE /\ tasks = before
            ELSE /\ call.result = TRUE
                 /\ Len(tasks) = Len(before)
                 /\ \A i \in 1..Len(before) :
                        IF i # IndexOf(before, task_id)
                        THEN tasks[i] = before[i]
                        ELSE /\ DOMAIN tasks[i] = DOMAIN before[i]
                             /\ \A f \in DOMAIN before[i] :
                                    tasks[i][f] = IF f \in DOMAIN updates
                                                  THEN updates[f]
                                                  ELSE before[i][f]

\* the second of two stored tasks was updated and changed
C33_Witness ==
    /\ call.op = "update_task"
    /\ call.result = TRUE
    /\ Len(call.before.tasks) = 2
    /\ call.arg[1] = call.before.tasks[2].id
    /\ tasks[2] # call.before.tasks[2]
    /\ tasks[1] = call.before.tasks[1]

----------------------------------------------------------------------------
(* The inferred limit (MonitorSpec) *)

\* C34: for a status text that gives only "U messages" the limit of the
\* snapshot is 45 when U <= 50, 225 when 50 < U <= 250 and 900 when U > 250,
\* the usage is U, and the plan is the one of that limit: pro, max5, max20.
C34_InferredLimit ==
    (/\ call.op = "check_token_status"
     /\ call.arg.kind = "exit"
     /\ call.arg.returncode = 0
     /\ call.arg.stdout.messages.form = "U messages")
        => LET U == call.arg.stdout.messages.U
               status == call.result
           IN  /\ status.known
               /\ status.messages_used = U
               /\ U <= 50 =>
                      status.messages_limit = 45 /\ status.plan = "pro"
               /\ (50 < U /\ U <= 250) =>
                      status.messages_limit = 225 /\ status.plan = "max5"
               /\ U > 250 =>
                      status.messages_limit = 900 /\ status.plan = "max20"

\* "250 messages": the upper end of the middle tier
C34_Witness ==
    /\ call.op = "check_token_status"
    /\ call.arg.kind = "exit"
    /\ call.arg.returncode = 0
    /\ call.arg.stdout.messages = [form |-> "U messages", U |-> 250, L |-> 0]
    /\ call.result.messages_limit = 225
    /\ call.result.plan = "max5"

----------------------------------------------------------------------------
(* One task at a time (Spec) *)

\* the positions of a run between its start and its return
RunSteps == {"tokens", "select", "mark", "recheck", "workspace", "execute",
             "cleanup"}

Running(ts) == {i \in 1..Len(ts) : ts[i].status = "running"}

\* the selected tasks of the run that are stored as running
SelectedRunning ==
    {k \in 1..Len(run.pending_tasks) :
        /\ HasTask(tasks, run.pending_tasks[k].id)
        /\ get_task(tasks, run.pending_tasks[k].id).status = "running"}

\* a step of a run starts only the task being processed, after the earlier
\* ones, and leaves the tasks that were not selected as they are
SequentialStep ==
    pc \in RunSteps =>
        /\ Len(tasks') = Len(tasks)
        /\ \A i \in 1..Len(tasks) :
               /\ (tasks'[i].status = "running" /\ tasks[i].status # "running") =>
                      /\ pc = "mark"
                      /\ tasks[i].id = task_config.id
                      /\ SelectedRunning = {}
               /\ tasks[i].id \notin Ids(run.pending_tasks) =>
                      tasks'[i] = tasks[i]

\* C35 as stated: at every moment of a run at most one task of the store
\* has status running.
C35_OneRunning == pc \in RunSteps => Cardinality(Running(tasks)) <= 1

\* C35: the tasks a run selected are processed one after another: the only
\* selected task that can be running is the one being processed, between
\* its mark and its result; a task becomes running only in the mark step of
\* the run, when no selected task is running; the run leaves the tasks it
\* did not select as they are; and when the run comes to its cleanup and
\* returns none of the selected tasks is running.  A task that an interrupted run left running
\* stays running beside them.
C35_Sequential ==
    /\ [](pc \in RunSteps =>
             \A k \in SelectedRunning :
                 k = run.i /\ pc \in {"recheck", "workspace", "execute"})
    /\ [][SequentialStep]_vars

\* the second task of a run is being processed after the first has completed
C35_Witness ==
    /\ pc = "workspace"
    /\ run.i = 2
    /\ SelectedRunning = {2}
    /\ get_task(tasks, run.pending_tasks[1].id).status = "completed"
    /\ Cardinality(Running(tasks)) = 1

----------------------------------------------------------------------------
(* Retries (RetrySpec) *)

\* C36 as stated: over runs with no reset between them the attempts of a
\* task never exceed its max_attempts.
C36_AttemptsWithinMax ==
    \A i \in 1..Len(tasks) : tasks[i].attempts <= tasks[i].max_attempts

\* C37: with the tool available, the quota checks passing and every
\* execution failing without a quota signal, repeated runs with
\* max_tasks >= 1 bring every pending task to failed, and from some run on
\* the store has no pending task.
C37_RetriesFinite ==
    /\ \A id \in CommandIds :
           (HasTask(tasks, id) /\ get_task(tasks, id).status = "pending")
               ~> (HasTask(tasks, id) /\ get_task(tasks, id).status = "failed")
    /\ <>[](get_tasks_by_status(tasks, "pending") = <<>>)

\* a task was put back to pending after a failed execution and is failed
\* by a later one
C37_Witness ==
    /\ Len(tasks) = 2
    /\ tasks[1].status = "failed"
    /\ tasks[1].attempts > 1
    /\ tasks[1].last_error # "Unexpected error"
    /\ tasks[2].status = "failed"

----------------------------------------------------------------------------
(* What a retry and a reset keep (Spec) *)

KeptFields ==
    {"id", "title", "description", "prompt_template", "created_at",
     "max_attempts", "attempts"}

\* u is t put back to pending: the kept fields as they were, no session
PutBack(t, u) ==
    /\ u.status = "pending"
    /\ \A f \in KeptFields : u[f] = t[f]
    /\ u.session_id = None

\* an execution failed and the task went back to pending, or the task was
\* reset between runs: it is put back
PutBackStep ==
    /\ pc = "execute" =>
           ((/\ \E o \in Outcomes : Execute(o)
             /\ get_task(tasks', task_config.id).status = "pending") =>
                PutBack(get_task(tasks, task_config.id),
                        get_task(tasks', task_config.id)))
    /\ \A id \in TaskIds :
           ResetTask(id) => PutBack(get_task(tasks, id), get_task(tasks', id))

\* C38: the retry after a failed execution and the explicit reset leave the
\* task pending with its id, title, description, prompt template, created_at,
\* max_attempts and attempts as they were and with no session id.
C38_RetryAndResetKeep == [][PutBackStep]_vars

\* a task that was resumed with its session failed in its second attempt
\* and is pending again, the attempts counted and the session gone
C38_Witness ==
    /\ pc = "cleanup"
    /\ Len(run.results) = 1
    /\ run.results[1].status = "pending"
    /\ run.pending_tasks[1].session_id # None
    /\ get_task(tasks, run.pending_tasks[1].id).status = "pending"
    /\ get_task(tasks, run.pending_tasks[1].id).session_id = None
    /\ get_task(tasks, run.pending_tasks[1].id).attempts = 2

----------------------------------------------------------------------------
(* The workspace of a paused task (Spec) *)

\* the cleanup at the end of a run removes the temporary workspace of every
\* task of the run, and the path stored in the task stays
CleanupLeavesPathDangling ==
    Cleanup =>
        \A k \in 1..Len(run.results) :
            LET id == run.results[k].task_id
            IN  (id \in DOMAIN registry /\ registry[id].is_temporary) =>
                    /\ id \notin DOMAIN registry'
                    /\ registry[id].workspace_path \notin disk'
                    /\ get_task(tasks', id).workspace_path \notin disk'
                    /\ run.results[k].session_id # None =>
                           get_task(tasks', id).workspace_path
                               = registry[id].workspace_path

\* a task resumed with its session after that cleanup gets a new workspace
\* and goes on to its execution
ResumeInNewWorkspace ==
    (/\ pc = "workspace"
     /\ task_config.session_id # None
     /\ task_config.id \notin DOMAIN registry
     /\ task_config.workspace_path # NoPath
     /\ task_config.workspace_path \notin disk
     /\ CreateTaskWorkspace) =>
        /\ pc' = "execute"
        /\ task_config.id \in DOMAIN registry'
        /\ registry'[task_config.id].workspace_path \in disk' \ disk
        /\ get_task(tasks', task_config.id).workspace_path
               = registry'[task_config.id].workspace_path

\* C39 as stated: the cleanup at the end of a run removes the temporary
\* workspace of every task processed in it, a task left paused with a session
\* id among them, so that its stored workspace_path names no directory; when
\* the task is resumed in a later run it executes in a newly created
\* workspace.
C39_PausedWorkspace ==
    [][CleanupLeavesPathDangling /\ ResumeInNewWorkspace]_vars

====
